---- MODULE Spec2Model ----
(***************************************************************************)
(* The geospatial engine of DRT_ideahack: the bounding-box route filter    *)
(* and the journey map of src/data/route_filter.py and the nearest-stop    *)
(* lookups of src/utils/location.py and src/data/route_filter.py.          *)
(*                                                                         *)
(* Numbers.  A coordinate is an integer counting 1/111 of a degree, so     *)
(* that the padding max_distance_km / 111 (degrees) is a whole number of   *)
(* units.  Stops and journey endpoints lie on the lattice of multiples of  *)
(* 60 degrees, where the sines and cosines of the haversine formula are    *)
(* rational and the formula is computed exactly.  A Python tuple or list   *)
(* is a sequence, None is the empty sequence and a value v that may be     *)
(* None is <<v>>.  A dict is a record with a field "keys" holding the keys *)
(* that are present.  A string that the code builds by formatting is a     *)
(* sequence of its pieces.                                                 *)
(***************************************************************************)
EXTENDS Integers, Sequences, FiniteSets, TLC

VARIABLES
    point_a,          \* argument: (lat, lon) of the start
    point_b,          \* argument: (lat, lon) of the end
    vehicles,         \* argument: list of vehicle dicts
    geojson_data,     \* argument: routes GeoJSON dict
    stops_data,       \* argument: stops GeoJSON dict
    call,             \* the function the caller invoked
    pc,               \* position inside that function
    max_distance_km,  \* filter_relevant_routes' argument of the same name
    bbox,             \* filter_relevant_routes' padded bounding box
    relevant_routes,  \* create_journey_map's local of the same name
    start_stop,       \* create_journey_map's local of the same name
    end_stop,         \* create_journey_map's local of the same name
    vehicle_group,    \* children of the "Live Vehicles" feature group
    route_groups,     \* the dict route_groups, in insertion order
    m,                \* children added to the folium map so far
    ret,              \* what the caller received: None or <<value>>
    exc,              \* the exception the caller received: None or <<e>>
    first,            \* what an earlier call with these arguments gave
    frames,           \* the invocations of create_journey_map in progress
    handlers,         \* the get_map requests the web app is handling
    temp_map,         \* what static/temp_map.html holds: None or <<map>>
    suggesting        \* the call of get_address_suggestions: None or <<call>>

inputs == <<point_a, point_b, vehicles, geojson_data, stops_data>>
locals == <<max_distance_km, bbox, relevant_routes, start_stop, end_stop,
            vehicle_group, route_groups, m>>
beside == <<first, frames, handlers, temp_map, suggesting>>
vars == <<inputs, call, pc, locals, ret, exc, beside>>

-----------------------------------------------------------------------------
(* Bounds of the model *)

MaxFeatures == 2
MaxStops == 3
MaxVehicles == 2

-----------------------------------------------------------------------------
(* Python values *)

None == <<>>
Some(v) == <<v>>

Range(s) == {s[i] : i \in 1..Len(s)}

HasKey(d, k) == k \in d.keys

KeyError(k) == [type |-> "KeyError", key |-> k]

\* What a call hands to its caller: a value, or an exception and no value.
Returned(v) == [raised |-> FALSE, value |-> Some(v), exc |-> None]
Raised(e) == [raised |-> TRUE, value |-> None, exc |-> Some(e)]

Consumed(list) == <<>>

\* "for x in list": what the loop leaves in the list it ran over
Iterated(list) == list

\* "for feature in data.get('features', [])": what it leaves in the dict
IteratedIn(data) == [data EXCEPT !.features = Iterated(@)]

-----------------------------------------------------------------------------
(* Units and distances *)

KmPerDegree == 111

\* d degrees, in coordinate units
Deg(d) == d * KmPerDegree

Lattice == Deg(60)

\* 2 * cos(x) for x a multiple of 60 degrees
Cos2(x) ==
    LET k == (x \div Lattice) % 6
    IN  CASE k = 0 -> 2
          [] k = 1 -> 1
          [] k = 2 -> -1
          [] k = 3 -> -2
          [] k = 4 -> -1
          [] k = 5 -> 1

\* 4 * sin(x / 2) ** 2 = 2 - 2 * cos(x)
Sin2Half4(x) == 2 - Cos2(x)

\* 2 * asin(sqrt(a16 / 16)) in milliradians, rounded
AsinSqrt2 ==
    <<505, 723, 896, 1047, 1186, 1318, 1445, 1571,
      1696, 1823, 1955, 2094, 2246, 2419, 2636, 3142>>

EarthRadiusKm == 6371

haversine_distance_adding(lat1, lon1, lat2, lon2) ==
    LET dlat == lat2 + lat1
        dlon == lon2 + lon1
        a16  == 4 * Sin2Half4(dlat) + Cos2(lat1) * Cos2(lat2) * Sin2Half4(dlon)
    IN  (IF a16 = 0 THEN 0 ELSE AsinSqrt2[a16]) * EarthRadiusKm

\* haversine_distance, in metres: a is kept as 16 * a
haversine_distance(lat1, lon1, lat2, lon2) ==
    LET dlat == lat2 - lat1
        dlon == lon2 - lon1
        a16  == 4 * Sin2Half4(dlat) + Cos2(lat1) * Cos2(lat2) * Sin2Half4(dlon)
        c    == IF a16 = 0 THEN 0 ELSE AsinSqrt2[a16]
        r    == EarthRadiusKm
    IN  c * r

\* geopy's geodesic(p, q).kilometers, in metres.  The library computes the
\* distance on the WGS-84 ellipsoid; on the lattice it orders the points as
\* the great-circle distance does, and equal or east-west mirrored positions
\* are at equal distance under both.
geodesic(p, q) == haversine_distance(p[1], p[2], q[1], q[2])

-----------------------------------------------------------------------------
(* src/utils/location.py: find_nearest_bus_stop *)

NearerMutant(distance, min_distance) ==
    min_distance = None \/ distance <= min_distance[1]

\* "distance < min_distance", min_distance starting at float("inf") (None)
Nearer(distance, min_distance) ==
    min_distance = None \/ distance < min_distance[1]

RECURSIVE NearestLoop(_, _, _, _, _)
NearestLoop(user_location, bus_stops, i, nearest_stop, min_distance) ==
    IF i > Len(bus_stops) THEN nearest_stop
    ELSE LET stop == bus_stops[i]
             distance == haversine_distance(user_location[1], user_location[2],
                                            stop.latitude, stop.longitude)
         IN  IF Nearer(distance, min_distance)
             THEN NearestLoop(user_location, bus_stops, i + 1,
                              Some(stop), Some(distance))
             ELSE NearestLoop(user_location, bus_stops, i + 1,
                              nearest_stop, min_distance)

find_nearest_bus_stop(user_location, bus_stops) ==
    NearestLoop(user_location, bus_stops, 1, None, None)

-----------------------------------------------------------------------------
(* src/data/route_filter.py: find_closest_stop *)

\* stops_data.get('features', [])
StopFeatures(data) == IF HasKey(data, "features") THEN data.features ELSE <<>>

\* [lon, lat] to (lat, lon)
StopPoint(stop_coords) == <<stop_coords[2], stop_coords[1]>>

CloserMutant(distance, min_distance) ==
    min_distance = None \/ distance <= min_distance[1]

Closer(distance, min_distance) ==
    min_distance = None \/ distance < min_distance[1]

RECURSIVE ClosestLoop(_, _, _, _, _)
ClosestLoop(point, features, i, closest_stop, min_distance) ==
    IF i > Len(features) THEN closest_stop
    ELSE LET feature == features[i]
             stop_point == StopPoint(feature.geometry.coordinates)
             distance == geodesic(point, stop_point)
         IN  IF Closer(distance, min_distance)
             THEN ClosestLoop(point, features, i + 1,
                              Some([stop_id     |-> feature.properties.STOP_ID,
                                    stop_name   |-> feature.properties.STOP_NAME,
                                    coordinates |-> stop_point,
                                    distance    |-> distance]),
                              Some(distance))
             ELSE ClosestLoop(point, features, i + 1, closest_stop, min_distance)

find_closest_stop_indexing(point, data) ==
    IF StopFeatures(data) = <<>>
    THEN Raised([type |-> "IndexError", key |-> "features"])
    ELSE Returned(ClosestLoop(point, StopFeatures(data), 1, None, None))

\* The call as its caller sees it; the body has no raise and no key lookup
\* on stops_data itself.
find_closest_stop(point, data) ==
    Returned(ClosestLoop(point, StopFeatures(data), 1, None, None))

-----------------------------------------------------------------------------
(* src/data/route_filter.py: filter_relevant_routes *)

Min(x, y) == IF x <= y THEN x ELSE y
Max(x, y) == IF x >= y THEN x ELSE y

\* max_distance_km / 111, degrees, in coordinate units
Padding(km) == Deg(km) \div KmPerDegree

DefaultMaxDistanceKm == 1

BoundingBoxShifted(a, b, km) ==
    [min_lat |-> Min(a[1], b[1]) + Padding(km),
     max_lat |-> Max(a[1], b[1]) + Padding(km),
     min_lon |-> Min(a[2], b[2]) - Padding(km),
     max_lon |-> Max(a[2], b[2]) + Padding(km)]

BoundingBoxLonCorrected(a, b, km) ==
    [min_lat |-> Min(a[1], b[1]) - Padding(km),
     max_lat |-> Max(a[1], b[1]) + Padding(km),
     min_lon |-> Min(a[2], b[2]) - 2 * Padding(km),
     max_lon |-> Max(a[2], b[2]) + 2 * Padding(km)]

\* the bounding box between points A and B, padded
BoundingBox(a, b, km) ==
    [min_lat |-> Min(a[1], b[1]) - Padding(km),
     max_lat |-> Max(a[1], b[1]) + Padding(km),
     min_lon |-> Min(a[2], b[2]) - Padding(km),
     max_lon |-> Max(a[2], b[2]) + Padding(km)]

InBoxStrict(lat, lon, box) ==
    /\ box.min_lat < lat /\ lat <= box.max_lat
    /\ box.min_lon <= lon /\ lon <= box.max_lon

\* min_lat <= lat <= max_lat and min_lon <= lon <= max_lon
InBox(lat, lon, box) ==
    /\ box.min_lat <= lat /\ lat <= box.max_lat
    /\ box.min_lon <= lon /\ lon <= box.max_lon

\* "for coord in coord_group": TRUE when the loop appended route_id and broke
RECURSIVE ScanGroup(_, _, _)
ScanGroup(coord_group, k, box) ==
    IF k > Len(coord_group) THEN FALSE
    ELSE LET lon == coord_group[k][1]
             lat == coord_group[k][2]
         IN  IF InBox(lat, lon, box) THEN TRUE
             ELSE ScanGroup(coord_group, k + 1, box)

\* "for coord_group in coordinates": relevant_route_ids after the feature
RECURSIVE ScanFeature(_, _, _, _, _)
ScanFeature(coordinates, g, route_id, ids, box) ==
    IF g > Len(coordinates) THEN ids
    ELSE LET ids2 == IF ScanGroup(coordinates[g], 1, box)
                     THEN Append(ids, route_id) ELSE ids
         IN  IF route_id \in Range(ids2) THEN ids2
             ELSE ScanFeature(coordinates, g + 1, route_id, ids2, box)

\* geojson_data.get('features', [])
RouteFeatures(data) == IF HasKey(data, "features") THEN data.features ELSE <<>>

RECURSIVE FilterLoopStopping(_, _, _, _)
FilterLoopStopping(features, i, ids, box) ==
    IF i > Len(features) \/ ids # <<>> THEN Returned(ids)
    ELSE IF ~HasKey(features[i].properties, "ROUTE_ID")
         THEN Raised(KeyError("ROUTE_ID"))
         ELSE FilterLoopStopping(features, i + 1,
                                 ScanFeature(features[i].geometry.coordinates,
                                             1, features[i].properties.ROUTE_ID,
                                             ids, box),
                                 box)

\* "for feature in ...": relevant_route_ids after the loop, or the KeyError
\* of feature['properties']['ROUTE_ID']
RECURSIVE FilterLoop(_, _, _, _)
FilterLoop(features, i, ids, box) ==
    IF i > Len(features) THEN Returned(ids)
    ELSE IF ~HasKey(features[i].properties, "ROUTE_ID")
         THEN Raised(KeyError("ROUTE_ID"))
         ELSE FilterLoop(features, i + 1,
                         ScanFeature(features[i].geometry.coordinates, 1,
                                     features[i].properties.ROUTE_ID, ids, box),
                         box)

list_keeping_duplicates(ids) == {ids}

\* list(set(relevant_route_ids)): the lists it can be.  The order in which
\* a set is listed is not fixed by the language.
list_set(ids) ==
    {s \in [1..Cardinality(Range(ids)) -> Range(ids)] : Range(s) = Range(ids)}

\* the outcomes of a call: the KeyError, or one of the lists
filter_relevant_routes(a, b, data, km) ==
    LET r == FilterLoop(RouteFeatures(data), 1, <<>>, BoundingBox(a, b, km))
    IN  IF r.raised THEN {r}
        ELSE {Returned(s) : s \in list_set(r.value[1])}

-----------------------------------------------------------------------------
(* src/data/route_filter.py: create_journey_map *)

Marker(location, popup) ==
    [kind |-> "Marker", location |-> location, popup |-> popup]

\* lines 89-100: the markers of points A and B
EndpointMarkers(a, b) ==
    <<Marker(a, <<"Start Point">>), Marker(b, <<"End Point">>)>>

StopsSearchedInBox(data, box) ==
    [data EXCEPT !.features =
        SelectSeq(data.features,
                  LAMBDA f : InBox(f.geometry.coordinates[2],
                                   f.geometry.coordinates[1], box))]

\* lines 103-104: the stops handed to find_closest_stop
StopsSearched(data, box) == data

\* lines 106-118: the marker of a closest stop, when there is one
StopMarkers(stop) ==
    IF stop = None THEN <<>>
    ELSE <<Marker(stop[1].coordinates,
                  <<"Nearest Stop: ", stop[1].stop_name, stop[1].distance>>)>>

CircleMarker(vehicle) ==
    [kind     |-> "CircleMarker",
     location |-> <<vehicle.latitude, vehicle.longitude>>,
     popup    |-> <<"Route ID: ", vehicle.route_id,
                    ", Vehicle ID: ", vehicle.id>>]

\* src/data/drt_gtfs.py, lines 46-53 and 135-142: one CircleMarker for
\* every vehicle
VehicleMarkers(vs) == [i \in 1..Len(vs) |-> CircleMarker(vs[i])]

VehicleShownAlways(vehicle, relevant) == TRUE

\* vehicle['route_id'] in relevant_routes
VehicleShown(vehicle, relevant) == vehicle.route_id \in Range(relevant)

RECURSIVE VehicleLoopByRoute(_, _, _, _)
VehicleLoopByRoute(vs, i, group, relevant) ==
    IF i > Len(relevant) THEN group
    ELSE VehicleLoopByRoute(vs, i + 1,
             group \o VehicleMarkers(
                          SelectSeq(vs, LAMBDA v : v.route_id = relevant[i])),
             relevant)

\* lines 122-130: the children of vehicle_group
RECURSIVE VehicleLoop(_, _, _, _)
VehicleLoop(vs, i, group, relevant) ==
    IF i > Len(vs) THEN group
    ELSE VehicleLoop(vs, i + 1,
                     IF VehicleShown(vs[i], relevant)
                     THEN Append(group, CircleMarker(vs[i]))
                     ELSE group,
                     relevant)

GroupNameById(route_id, route_name) == <<"Route ">> \o route_id

\* f"Route {route_id}: {route_name}"
GroupName(route_id, route_name) ==
    <<"Route ">> \o route_id \o <<": ">> \o route_name

GroupNames(groups) == {groups[k].name : k \in 1..Len(groups)}

GroupIndex(groups, name) ==
    CHOOSE k \in 1..Len(groups) : groups[k].name = name

AddToGroupOnce(groups, group_name, feature) ==
    IF \E k \in 1..Len(groups) :
           /\ groups[k].children # <<>>
           /\ groups[k].children[1].properties.ROUTE_ID = feature.properties.ROUTE_ID
    THEN groups
    ELSE Append(groups, [name |-> group_name, children |-> <<feature>>])

\* lines 138-151: create the group if it is new, add the GeoJson layer to it
AddToGroup(groups, group_name, feature) ==
    LET created == IF group_name \notin GroupNames(groups)
                   THEN Append(groups, [name |-> group_name, children |-> <<>>])
                   ELSE groups
        k == GroupIndex(created, group_name)
    IN  [created EXCEPT ![k].children = Append(@, feature)]

\* lines 133-151: route_groups, or the KeyError of a property lookup
RECURSIVE RouteLoop(_, _, _, _)
RouteLoop(features, i, groups, relevant) ==
    IF i > Len(features) THEN Returned(groups)
    ELSE LET props == features[i].properties
         IN  IF ~HasKey(props, "ROUTE_ID") THEN Raised(KeyError("ROUTE_ID"))
             ELSE IF props.ROUTE_ID \notin Range(relevant)
                  THEN RouteLoop(features, i + 1, groups, relevant)
                  ELSE IF ~HasKey(props, "ROUTE_NAME")
                       THEN Raised(KeyError("ROUTE_NAME"))
                       ELSE RouteLoop(features, i + 1,
                                AddToGroup(groups,
                                    GroupName(props.ROUTE_ID, props.ROUTE_NAME),
                                    features[i]),
                                relevant)

FeatureGroup(name, children) ==
    [kind |-> "FeatureGroup", name |-> name, children |-> children]

\* lines 153-157: the layers added before the return
RECURSIVE GroupLayers(_, _)
GroupLayers(groups, k) ==
    IF k > Len(groups) THEN <<>>
    ELSE <<FeatureGroup(groups[k].name, groups[k].children)>>
         \o GroupLayers(groups, k + 1)

LayerControl == [kind |-> "LayerControl"]

UnwindWithMap(partial) == Some(partial)

\* create_journey_map has no try: an exception raised inside it leaves the
\* function, and the caller receives no value, whatever m holds by then
Unwind(partial) == None

\* the exception e leaving create_journey_map
Failed(e, partial) == [raised |-> TRUE, value |-> Unwind(partial), exc |-> e]

\* lines 89-158, with relevant_routes as line 87 gave it
JourneyOf(a, b, vs, routes, stops, relevant) ==
    LET box == BoundingBox(a, b, DefaultMaxDistanceKm)
        s == find_closest_stop(a, StopsSearched(stops, box))
        e == find_closest_stop(b, StopsSearched(stops, box))
        g == RouteLoop(RouteFeatures(routes), 1, <<>>, relevant)
    IN  IF s.raised THEN Failed(s.exc, <<>>)
        ELSE IF e.raised THEN Failed(e.exc, <<>>)
        ELSE IF g.raised
             THEN Failed(g.exc, EndpointMarkers(a, b)
                                \o StopMarkers(s.value[1])
                                \o StopMarkers(e.value[1]))
             ELSE Returned(EndpointMarkers(a, b)
                           \o StopMarkers(s.value[1])
                           \o StopMarkers(e.value[1])
                           \o <<FeatureGroup(<<"Live Vehicles">>,
                                             VehicleLoop(vs, 1, <<>>, relevant))>>
                           \o GroupLayers(g.value[1], 1)
                           \o <<LayerControl>>)

\* lines 76-158: the outcomes of a call that runs alone
create_journey_map(a, b, vs, routes, stops) ==
    {IF r.raised THEN Failed(r.exc, <<>>)
     ELSE JourneyOf(a, b, vs, routes, stops, r.value[1]) :
        r \in filter_relevant_routes(a, b, routes, DefaultMaxDistanceKm)}

StartGroupsShared(fr, p) ==
    fr[CHOOSE q \in DOMAIN fr : q # p].route_groups

\* line 132, "route_groups = {}": every invocation starts from a dict of
\* its own
StartGroups(fr, p) == <<>>

-----------------------------------------------------------------------------
(* src/data/drt_gtfs.py: plot_vehicles, create_static_routes_map,
   create_combined_map.  A map is the sequence of the children added to it. *)

IndexError == <<"IndexError">>

\* lines 42-55
plot_vehicles(vs) == Returned(VehicleMarkers(vs))

RECURSIVE StaticRouteLoopSkipping(_, _, _)
StaticRouteLoopSkipping(features, i, groups) ==
    IF i > Len(features) THEN Returned(groups)
    ELSE LET props == features[i].properties
         IN  IF ~HasKey(props, "ROUTE_NAME") \/ ~HasKey(props, "ROUTE_ID")
             THEN StaticRouteLoopSkipping(features, i + 1, groups)
             ELSE StaticRouteLoopSkipping(features, i + 1,
                      AddToGroup(groups,
                                 GroupName(props.ROUTE_ID, props.ROUTE_NAME),
                                 features[i]))

\* lines 85-106 and 148-167: route_groups, or the KeyError of a property
\* lookup; ROUTE_NAME is read first
RECURSIVE StaticRouteLoop(_, _, _)
StaticRouteLoop(features, i, groups) ==
    IF i > Len(features) THEN Returned(groups)
    ELSE LET props == features[i].properties
         IN  IF ~HasKey(props, "ROUTE_NAME")
             THEN Raised(KeyError("ROUTE_NAME"))
             ELSE IF ~HasKey(props, "ROUTE_ID")
                  THEN Raised(KeyError("ROUTE_ID"))
                  ELSE StaticRouteLoop(features, i + 1,
                           AddToGroup(groups,
                               GroupName(props.ROUTE_ID, props.ROUTE_NAME),
                               features[i]))

\* geojson_data['features'] and the loop over it
StaticRouteGroups(data) ==
    IF ~HasKey(data, "features") THEN Raised(KeyError("features"))
    ELSE StaticRouteLoop(data.features, 1, <<>>)

\* lines 77-115
create_static_routes_map(data) ==
    LET r == StaticRouteGroups(data)
    IN  IF r.raised THEN r
        ELSE Returned(GroupLayers(r.value[1], 1) \o <<LayerControl>>)

create_combined_map_first_vehicle(vs, data) ==
    IF vs = <<>> THEN Raised(IndexError)
    ELSE Returned(<<FeatureGroup(<<"Live Vehicles">>, VehicleMarkers(vs)),
                    LayerControl>>)

\* lines 125-177
create_combined_map(vs, data) ==
    LET r == StaticRouteGroups(data)
    IN  IF r.raised THEN r
        ELSE Returned(<<FeatureGroup(<<"Live Vehicles">>, VehicleMarkers(vs))>>
                      \o GroupLayers(r.value[1], 1) \o <<LayerControl>>)

-----------------------------------------------------------------------------
(* The inputs a caller passes *)

EndPoints == {<<0, 0>>, <<Deg(60), Deg(60)>>}

\* (lat, lon) of the stops: the first endpoint, two positions mirrored east
\* and west of it, and the second endpoint
StopPositions == {<<0, 0>>, <<0, Deg(60)>>, <<0, -Deg(60)>>, <<Deg(60), Deg(60)>>}

StopFeature(i, pos) ==
    [geometry   |-> [coordinates |-> <<pos[2], pos[1]>>],
     properties |-> [STOP_ID |-> i, STOP_NAME |-> <<"Stop ", i>>]]

StopsData(positions) ==
    [keys     |-> {"features"},
     features |-> [i \in 1..Len(positions) |-> StopFeature(i, positions[i])]]

NoFeaturesKey == [keys |-> {}, features |-> <<>>]

\* the same stops as find_nearest_bus_stop takes them
BusStops(data) ==
    [i \in 1..Len(StopFeatures(data)) |->
        [id        |-> StopFeatures(data)[i].properties.STOP_ID,
         latitude  |-> StopFeatures(data)[i].geometry.coordinates[2],
         longitude |-> StopFeatures(data)[i].geometry.coordinates[1]]]

RouteIds == {<<"901">>, <<"902">>}
RouteNames == {<<"Simcoe">>, <<"Taunton">>}
UnknownRouteId == <<"999">>

Vehicle(i, route_id) ==
    [id |-> <<"bus", i>>, route_id |-> route_id, latitude |-> 0, longitude |-> 0]

VehicleList(route_ids) ==
    [i \in 1..Len(route_ids) |-> Vehicle(i, route_ids[i])]

\* [lon, lat] of route points: inside every box that holds <<0, 0>>, on each
\* edge of the default box around the two endpoints, and one unit beyond
cIn == <<0, 0>>
cSouth == <<0, -1>>
cWest == <<-1, 0>>
cNorth == <<0, Deg(60) + 1>>
cEast == <<Deg(60) + 1, 0>>
cSouthOut == <<0, -2>>
cWestOut == <<-2, 0>>
cNorthOut == <<0, Deg(60) + 2>>
cEastOut == <<Deg(60) + 2, 0>>

Geometries ==
    {<< <<c>> >> : c \in {cSouth, cWest, cNorth, cEast,
                          cSouthOut, cWestOut, cNorthOut, cEastOut}}
    \cup {<<>>,
          << <<>> >>,
          << <<>>, <<cIn>> >>,
          << <<cSouthOut>>, <<cWestOut, cSouth>> >>}

Properties(keys, route_id, route_name) ==
    [keys       |-> keys,
     ROUTE_ID   |-> IF "ROUTE_ID" \in keys THEN route_id ELSE <<>>,
     ROUTE_NAME |-> IF "ROUTE_NAME" \in keys THEN route_name ELSE <<>>]

RouteFeature(props, coordinates) ==
    [geometry |-> [coordinates |-> coordinates], properties |-> props]

PropertySets ==
    {Properties(keys, id, name) :
        keys \in SUBSET {"ROUTE_ID", "ROUTE_NAME"},
        id \in RouteIds, name \in RouteNames}

WellFormed(id) == Properties({"ROUTE_ID", "ROUTE_NAME"}, id, <<"Simcoe">>)

RoutesData(features) == [keys |-> {"features"}, features |-> features]

DefaultStops == StopsData(<<<<0, Deg(60)>>, <<0, 0>>>>)
DefaultVehicles == VehicleList(<<<<"901">>, UnknownRouteId, <<"902">>>>)
DefaultRoutes ==
    RoutesData(<<RouteFeature(WellFormed(<<"901">>), << <<cIn>> >>)>>)

\* one route with every geometry, another inside and outside the box
GeometryFeatures ==
    {RouteFeature(WellFormed(<<"901">>), g) : g \in Geometries}
    \cup {RouteFeature(WellFormed(<<"902">>), g) :
              g \in {<< <<>>, <<cIn>> >>, << <<cSouthOut>> >>}}

PropertyFeatures ==
    {RouteFeature(p, g) :
        p \in PropertySets, g \in {<< <<cIn>> >>, << <<cSouthOut>> >>}}

VehicleFeatures ==
    {RouteFeature(WellFormed(id), g) :
        id \in RouteIds, g \in {<< <<cIn>> >>, << <<cSouthOut>> >>}}

Given(a, b, vs, routes, stops) ==
    /\ point_a = a
    /\ point_b = b
    /\ vehicles = vs
    /\ geojson_data = routes
    /\ stops_data = stops

\* geometries of every shape, well-formed properties
GeometryInputs ==
    \E a \in EndPoints, b \in EndPoints, n \in 0..MaxFeatures :
        \E fs \in [1..n -> GeometryFeatures] :
            Given(a, b, DefaultVehicles, RoutesData(fs), DefaultStops)

\* properties with every combination of keys, inside and outside the box
PropertyInputs ==
    \E n \in 0..MaxFeatures :
        \E fs \in [1..n -> PropertyFeatures] :
            Given(<<0, 0>>, <<Deg(60), Deg(60)>>, DefaultVehicles,
                  RoutesData(fs), DefaultStops)

\* stops at every position, in every order
StopInputs ==
    \E a \in EndPoints, b \in EndPoints, n \in 0..MaxStops :
        \E ps \in [1..n -> StopPositions] :
            \E routes \in {DefaultRoutes, RoutesData(<<>>)} :
                Given(a, b, DefaultVehicles, routes, StopsData(ps))

\* vehicles on every route and on none
VehicleInputs ==
    \E nv \in 0..MaxVehicles, nf \in 0..MaxFeatures :
        \E rs \in [1..nv -> RouteIds \cup {UnknownRouteId}] :
            \E fs \in [1..nf -> VehicleFeatures] :
                Given(<<0, 0>>, <<0, 0>>, VehicleList(rs), RoutesData(fs),
                      DefaultStops)

\* dicts without the 'features' key
MissingKeyInputs ==
    \E a \in EndPoints :
        \E routes \in {DefaultRoutes, NoFeaturesKey} :
            \E stops \in {DefaultStops, NoFeaturesKey} :
                Given(a, a, DefaultVehicles, routes, stops)

Inputs ==
    \/ GeometryInputs
    \/ PropertyInputs
    \/ StopInputs
    \/ VehicleInputs
    \/ MissingKeyInputs

\* route ids and names of which two different pairs format to one name
ColonRouteIds == {<<"901">>, <<"902">>, <<"901", ": ", "A">>}
ColonRouteNames == {<<"B">>, <<"A", ": ", "B">>}

MapPropertySets ==
    {Properties(keys, id, name) :
        keys \in SUBSET {"ROUTE_ID", "ROUTE_NAME"},
        id \in ColonRouteIds, name \in ColonRouteNames}

MapFeatures ==
    {RouteFeature(p, << <<cIn>> >>) : p \in MapPropertySets}
    \cup {RouteFeature(WellFormed(<<"901">>), << <<cSouthOut>> >>)}

\* what the map builders of drt_gtfs.py and the journey map are given: routes
\* with every combination of keys, no routes, no 'features' key, no
\* vehicles, no stops
MapInputs ==
    \E nv \in 0..MaxVehicles, nf \in 0..MaxFeatures :
        \E fs \in [1..nf -> MapFeatures] :
            \E routes \in {RoutesData(fs), NoFeaturesKey} :
                \E stops \in {DefaultStops, StopsData(<<>>)} :
                    Given(<<0, 0>>, <<0, 0>>,
                          VehicleList([i \in 1..nv |-> <<"901">>]),
                          routes, stops)

\* max_distance_km as a caller of filter_relevant_routes may pass it
Paddings == {-1, 0, 2}

-----------------------------------------------------------------------------
(* The state machine *)

Init ==
    /\ Inputs
    /\ call = "none"
    /\ pc = "idle"
    /\ max_distance_km = DefaultMaxDistanceKm
    /\ bbox = None
    /\ relevant_routes = <<>>
    /\ start_stop = None
    /\ end_stop = None
    /\ vehicle_group = <<>>
    /\ route_groups = <<>>
    /\ m = <<>>
    /\ ret = None
    /\ exc = None
    /\ first = None
    /\ frames = <<>>
    /\ handlers = <<>>
    /\ temp_map = None
    /\ suggesting = None

\* a caller invokes filter_relevant_routes(point_a, point_b, geojson_data, km)
FilterRelevantRoutes ==
    /\ pc = "idle"
    /\ \E km \in Paddings :
          \E r \in filter_relevant_routes(point_a, point_b, geojson_data, km) :
              /\ call' = "filter_relevant_routes"
              /\ max_distance_km' = km
              /\ bbox' = Some(BoundingBox(point_a, point_b, km))
              /\ pc' = IF r.raised THEN "raised" ELSE "returned"
              /\ ret' = r.value
              /\ exc' = r.exc
    /\ geojson_data' = IteratedIn(geojson_data)
    /\ UNCHANGED <<point_a, point_b, vehicles, stops_data, relevant_routes,
                   start_stop, end_stop, vehicle_group, route_groups, m,
                   beside>>

\* a caller invokes find_nearest_bus_stop(point_a, bus_stops)
FindNearestBusStop ==
    /\ pc = "idle"
    /\ call' = "find_nearest_bus_stop"
    /\ pc' = "returned"
    /\ ret' = Some(find_nearest_bus_stop(point_a, BusStops(stops_data)))
    /\ stops_data' = IteratedIn(stops_data)
    /\ UNCHANGED <<point_a, point_b, vehicles, geojson_data, locals, exc,
                   beside>>

\* create_journey_map, lines 84-87: the map, then the relevant routes
JourneyFilter ==
    /\ pc = "idle"
    /\ call' = "create_journey_map"
    /\ m' = <<>>
    /\ bbox' = Some(BoundingBox(point_a, point_b, DefaultMaxDistanceKm))
    /\ \E r \in filter_relevant_routes(point_a, point_b, geojson_data,
                                         DefaultMaxDistanceKm) :
           IF r.raised
           THEN /\ pc' = "raised"
                /\ exc' = r.exc
                /\ ret' = Unwind(m')
                /\ UNCHANGED relevant_routes
           ELSE /\ pc' = "filtered"
                /\ relevant_routes' = r.value[1]
                /\ UNCHANGED <<ret, exc>>
    /\ geojson_data' = IteratedIn(geojson_data)
    /\ UNCHANGED <<point_a, point_b, vehicles, stops_data, max_distance_km,
                   start_stop, end_stop, vehicle_group, route_groups, beside>>

\* lines 89-118: the endpoint markers and the closest stops
JourneyStops ==
    /\ pc = "filtered"
    /\ LET s == find_closest_stop(point_a, StopsSearched(stops_data, bbox[1]))
           e == find_closest_stop(point_b, StopsSearched(stops_data, bbox[1]))
       IN  IF s.raised \/ e.raised
           THEN /\ pc' = "raised"
                /\ exc' = IF s.raised THEN s.exc ELSE e.exc
                /\ ret' = Unwind(m)
                /\ UNCHANGED <<start_stop, end_stop, m>>
           ELSE /\ pc' = "stops_marked"
                /\ start_stop' = s.value[1]
                /\ end_stop' = e.value[1]
                /\ m' = m \o EndpointMarkers(point_a, point_b)
                          \o StopMarkers(s.value[1]) \o StopMarkers(e.value[1])
                /\ UNCHANGED <<ret, exc>>
    /\ stops_data' = IteratedIn(stops_data)
    /\ UNCHANGED <<point_a, point_b, vehicles, geojson_data, call,
                   max_distance_km, bbox, relevant_routes, vehicle_group,
                   route_groups, beside>>

\* lines 120-130: the vehicles on relevant routes
JourneyVehicles ==
    /\ pc = "stops_marked"
    /\ pc' = "vehicles_added"
    /\ vehicle_group' = VehicleLoop(vehicles, 1, <<>>, relevant_routes)
    /\ vehicles' = Iterated(vehicles)
    /\ UNCHANGED <<point_a, point_b, geojson_data, stops_data, call,
                   max_distance_km, bbox, relevant_routes, start_stop,
                   end_stop, route_groups, m, ret, exc, beside>>

\* lines 132-151: the relevant routes, grouped by name
JourneyRoutes ==
    /\ pc = "vehicles_added"
    /\ LET r == RouteLoop(RouteFeatures(geojson_data), 1, <<>>, relevant_routes)
       IN  IF r.raised
           THEN /\ pc' = "raised"
                /\ exc' = r.exc
                /\ ret' = Unwind(m)
                /\ UNCHANGED route_groups
           ELSE /\ pc' = "routes_added"
                /\ route_groups' = r.value[1]
                /\ UNCHANGED <<ret, exc>>
    /\ geojson_data' = IteratedIn(geojson_data)
    /\ UNCHANGED <<point_a, point_b, vehicles, stops_data, call,
                   max_distance_km, bbox, relevant_routes, start_stop,
                   end_stop, vehicle_group, m, beside>>

\* lines 153-158: the layers, the layer control, the return
JourneyReturn ==
    /\ pc = "routes_added"
    /\ pc' = "returned"
    /\ m' = m \o <<FeatureGroup(<<"Live Vehicles">>, vehicle_group)>>
              \o GroupLayers(route_groups, 1) \o <<LayerControl>>
    /\ ret' = Some(m')
    /\ UNCHANGED <<inputs, call, max_distance_km, bbox, relevant_routes,
                   start_stop, end_stop, vehicle_group, route_groups, exc,
                   beside>>

Next ==
    \/ FilterRelevantRoutes
    \/ FindNearestBusStop
    \/ JourneyFilter
    \/ JourneyStops
    \/ JourneyVehicles
    \/ JourneyRoutes
    \/ JourneyReturn

Spec == Init /\ [][Next]_vars

-----------------------------------------------------------------------------
(* The map builders of src/data/drt_gtfs.py *)

InitMaps ==
    /\ MapInputs
    /\ call = "none"
    /\ pc = "idle"
    /\ max_distance_km = DefaultMaxDistanceKm
    /\ bbox = None
    /\ relevant_routes = <<>>
    /\ start_stop = None
    /\ end_stop = None
    /\ vehicle_group = <<>>
    /\ route_groups = <<>>
    /\ m = <<>>
    /\ ret = None
    /\ exc = None
    /\ first = None
    /\ frames = <<>>
    /\ handlers = <<>>
    /\ temp_map = None
    /\ suggesting = None

\* what a call that ran to its end leaves: the value returned, or the
\* exception and no value
Finish(name, r) ==
    /\ call' = name
    /\ pc' = IF r.raised THEN "raised" ELSE "returned"
    /\ ret' = r.value
    /\ exc' = r.exc

\* a caller invokes plot_vehicles(vehicles, map_center)
PlotVehicles ==
    /\ pc = "idle"
    /\ Finish("plot_vehicles", plot_vehicles(vehicles))
    /\ UNCHANGED <<inputs, locals, beside>>

\* a caller invokes create_static_routes_map(geojson_data, map_center)
CreateStaticRoutesMap ==
    /\ pc = "idle"
    /\ Finish("create_static_routes_map", create_static_routes_map(geojson_data))
    /\ UNCHANGED <<inputs, locals, beside>>

\* a caller invokes create_combined_map(vehicles, geojson_data, map_center)
CreateCombinedMap ==
    /\ pc = "idle"
    /\ Finish("create_combined_map", create_combined_map(vehicles, geojson_data))
    /\ UNCHANGED <<inputs, locals, beside>>

NextMaps ==
    \/ Next
    \/ PlotVehicles
    \/ CreateStaticRoutesMap
    \/ CreateCombinedMap

SpecMaps == InitMaps /\ [][NextMaps]_vars

-----------------------------------------------------------------------------
(* create_journey_map called twice with the same arguments *)

AgainInputs ==
    \/ PropertyInputs
    \/ StopInputs
    \/ VehicleInputs
    \/ MissingKeyInputs

InitAgain ==
    /\ AgainInputs
    /\ call = "none"
    /\ pc = "idle"
    /\ max_distance_km = DefaultMaxDistanceKm
    /\ bbox = None
    /\ relevant_routes = <<>>
    /\ start_stop = None
    /\ end_stop = None
    /\ vehicle_group = <<>>
    /\ route_groups = <<>>
    /\ m = <<>>
    /\ ret = None
    /\ exc = None
    /\ first = None
    /\ frames = <<>>
    /\ handlers = <<>>
    /\ temp_map = None
    /\ suggesting = None

\* what the caller of a finished call holds
Outcome == [raised |-> pc = "raised", value |-> ret, exc |-> exc]

\* the caller keeps the outcome and is about to call again: the locals of
\* the finished call are gone, the arguments are the objects they were
JourneyAgain ==
    /\ call = "create_journey_map"
    /\ pc \in {"returned", "raised"}
    /\ first = None
    /\ first' = Some(Outcome)
    /\ call' = "none"
    /\ pc' = "idle"
    /\ max_distance_km' = DefaultMaxDistanceKm
    /\ bbox' = None
    /\ relevant_routes' = <<>>
    /\ start_stop' = None
    /\ end_stop' = None
    /\ vehicle_group' = <<>>
    /\ route_groups' = <<>>
    /\ m' = <<>>
    /\ ret' = None
    /\ exc' = None
    /\ UNCHANGED <<inputs, frames, handlers, temp_map, suggesting>>

NextAgain ==
    \/ JourneyFilter
    \/ JourneyStops
    \/ JourneyVehicles
    \/ JourneyRoutes
    \/ JourneyReturn
    \/ JourneyAgain

SpecAgain == InitAgain /\ [][NextAgain]_vars

-----------------------------------------------------------------------------
(* Two invocations of create_journey_map in progress at once, each with a
   snapshot of its own *)

Invocations == {"one", "two"}

\* a feature that is grouped, and one whose ROUTE_NAME lookup raises
SnapshotFeatures ==
    {RouteFeature(WellFormed(<<"901">>), << <<cIn>> >>),
     RouteFeature(Properties({"ROUTE_ID"}, <<"902">>, <<>>), << <<cIn>> >>)}

Snapshots ==
    UNION {{[a        |-> <<0, 0>>,
             b        |-> <<0, 0>>,
             vehicles |-> DefaultVehicles,
             routes   |-> RoutesData(fs),
             stops    |-> DefaultStops] : fs \in [1..n -> SnapshotFeatures]} :
           n \in 0..MaxFeatures}

\* the arguments and the locals of an invocation that has not begun
Frame(snapshot) ==
    [args            |-> snapshot,
     pc              |-> "idle",
     relevant_routes |-> <<>>,
     start_stop      |-> None,
     end_stop        |-> None,
     vehicle_group   |-> <<>>,
     route_groups    |-> <<>>,
     m               |-> <<>>,
     ret             |-> None,
     exc             |-> None]

InitFrames ==
    /\ Given(<<0, 0>>, <<0, 0>>, <<>>, RoutesData(<<>>), StopsData(<<>>))
    /\ call = "none"
    /\ pc = "idle"
    /\ max_distance_km = DefaultMaxDistanceKm
    /\ bbox = None
    /\ relevant_routes = <<>>
    /\ start_stop = None
    /\ end_stop = None
    /\ vehicle_group = <<>>
    /\ route_groups = <<>>
    /\ m = <<>>
    /\ ret = None
    /\ exc = None
    /\ first = None
    /\ handlers = <<>>
    /\ temp_map = None
    /\ suggesting = None
    /\ frames \in [Invocations -> {Frame(s) : s \in Snapshots}]

\* the invocation p leaves with the exception e
FrameRaise(p, e) ==
    frames' = [frames EXCEPT ![p].pc = "raised",
                             ![p].exc = e,
                             ![p].ret = Unwind(frames[p].m)]

Sequential ==
    <<inputs, call, pc, locals, ret, exc, first, handlers, temp_map, suggesting>>

\* lines 84-87 of invocation p
FrameFilter(p) ==
    /\ frames[p].pc = "idle"
    /\ \E r \in filter_relevant_routes(frames[p].args.a, frames[p].args.b,
                                         frames[p].args.routes,
                                         DefaultMaxDistanceKm) :
           IF r.raised THEN FrameRaise(p, r.exc)
           ELSE frames' = [frames EXCEPT ![p].pc = "filtered",
                                         ![p].relevant_routes = r.value[1]]
    /\ UNCHANGED Sequential

\* lines 89-118 of invocation p
FrameStops(p) ==
    /\ frames[p].pc = "filtered"
    /\ LET f == frames[p]
           box == BoundingBox(f.args.a, f.args.b, DefaultMaxDistanceKm)
           s == find_closest_stop(f.args.a, StopsSearched(f.args.stops, box))
           e == find_closest_stop(f.args.b, StopsSearched(f.args.stops, box))
       IN  IF s.raised \/ e.raised
           THEN FrameRaise(p, IF s.raised THEN s.exc ELSE e.exc)
           ELSE frames' = [frames EXCEPT
                    ![p].pc = "stops_marked",
                    ![p].start_stop = s.value[1],
                    ![p].end_stop = e.value[1],
                    ![p].m = f.m \o EndpointMarkers(f.args.a, f.args.b)
                                 \o StopMarkers(s.value[1])
                                 \o StopMarkers(e.value[1])]
    /\ UNCHANGED Sequential

\* lines 120-130 of invocation p
FrameVehicles(p) ==
    /\ frames[p].pc = "stops_marked"
    /\ frames' = [frames EXCEPT
           ![p].pc = "vehicles_added",
           ![p].vehicle_group = VehicleLoop(frames[p].args.vehicles, 1, <<>>,
                                            frames[p].relevant_routes)]
    /\ UNCHANGED Sequential

\* lines 132-151 of invocation p
FrameRoutes(p) ==
    /\ frames[p].pc = "vehicles_added"
    /\ LET r == RouteLoop(RouteFeatures(frames[p].args.routes), 1,
                          StartGroups(frames, p), frames[p].relevant_routes)
       IN  IF r.raised THEN FrameRaise(p, r.exc)
           ELSE frames' = [frames EXCEPT ![p].pc = "routes_added",
                                         ![p].route_groups = r.value[1]]
    /\ UNCHANGED Sequential

\* lines 153-158 of invocation p
FrameReturn(p) ==
    /\ frames[p].pc = "routes_added"
    /\ LET f == frames[p]
           whole == f.m \o <<FeatureGroup(<<"Live Vehicles">>, f.vehicle_group)>>
                        \o GroupLayers(f.route_groups, 1) \o <<LayerControl>>
       IN  frames' = [frames EXCEPT ![p].pc = "returned",
                                    ![p].m = whole,
                                    ![p].ret = Some(whole)]
    /\ UNCHANGED Sequential

\* the scheduler runs a step of either invocation
NextFrames ==
    \E p \in Invocations :
        \/ FrameFilter(p)
        \/ FrameStops(p)
        \/ FrameVehicles(p)
        \/ FrameRoutes(p)
        \/ FrameReturn(p)

SpecFrames == InitFrames /\ [][NextFrames]_vars

-----------------------------------------------------------------------------
(* src/app/main_fastapi.py and src/app/main.py: geocode_selected_address,
   create_combined_map and the handler get_map.  The two files hold the same
   code, awaited in one and called in the other; they differ in how get_map
   answers.  Latitudes and longitudes are integers counting 1/10000 of a
   degree. *)

DurhamNorth == 443341
DurhamSouth == 437429
DurhamEast == -785226
DurhamWest == -792647

\* what Nominatim's geocode gives: no location, a location, an exception
NoLocation == [kind |-> "none"]
Location(lat, lon) == [kind |-> "location", latitude |-> lat, longitude |-> lon]
GeocoderRaises(error) == [kind |-> "raises", error |-> error]
GeocoderError == GeocoderRaises(<<"GeocoderServiceError">>)
GeocoderTimedOut == GeocoderRaises(<<"GeocoderTimedOut">>)

InDurhamStrict(lat, lon) ==
    /\ DurhamSouth < lat /\ lat < DurhamNorth
    /\ DurhamWest < lon /\ lon < DurhamEast

\* main_fastapi.py lines 228-229
InDurham(lat, lon) ==
    /\ DurhamSouth <= lat /\ lat <= DurhamNorth
    /\ DurhamWest <= lon /\ lon <= DurhamEast

\* f"{address}, Durham Region, Ontario, Canada"
WithRegion(address) == address \o <<", Durham Region, Ontario, Canada">>

Lookup(query, answer) == [query |-> query, answer |-> answer]

TryRegionWhenOutside(exact) ==
    \/ exact.kind = "none"
    \/ /\ exact.kind = "location"
       /\ ~InDurham(exact.latitude, exact.longitude)

\* line 210, "if not location": the lookup with the region is made
TryRegion(exact) == exact.kind = "none"

GeocodeReraise(error) == [value |-> None, exc |-> Some(error)]

\* lines 238-240, "except Exception": the error is printed, None returned
GeocodeExcept(error) == [value |-> None, exc |-> None]

\* lines 218-236: the location inside the bounds, or None
GeocodeCheck(location) ==
    [value |-> IF /\ location.kind = "location"
                  /\ InDurham(location.latitude, location.longitude)
               THEN Some(<<location.latitude, location.longitude>>)
               ELSE None,
     exc   |-> None]

\* main_fastapi.py lines 196-240: the value returned, the exception leaving
\* the function and the lookups made, when the geocoder answers the exact
\* address with exact and the address with region with regional
geocode_selected_address(address, exact, regional) ==
    LET again == exact.kind # "raises" /\ TryRegion(exact)
        location == IF again THEN regional ELSE exact
        lookups == IF again
                   THEN <<Lookup(address, exact),
                          Lookup(WithRegion(address), regional)>>
                   ELSE <<Lookup(address, exact)>>
        end == IF location.kind = "raises"
               THEN GeocodeExcept(location.error)
               ELSE GeocodeCheck(location)
    IN  [lookups |-> lookups, value |-> end.value, exc |-> end.exc]

\* what the vehicle positions service gives: the request raises, the
\* content does not parse, or a feed of entities
RequestRaises == [kind |-> "raises", error |-> <<"ConnectError">>]
ParseRaises == [kind |-> "raises", error |-> <<"DecodeError">>]
StatusRaises == [kind |-> "raises", error |-> <<"HTTPStatusError">>]
JsonRaises == [kind |-> "raises", error |-> <<"JSONDecodeError">>]
Entity(has_vehicle, vehicle) ==
    [has_vehicle |-> has_vehicle, vehicle |-> vehicle]
Feed(entity) == [kind |-> "feed", entity |-> entity]
Json(body) == [kind |-> "json", body |-> body]

FetchReraise(error) == Raised(error)

\* main_fastapi.py lines 70-72: the error is printed, [] returned
FetchVehiclesExcept(error) == Returned(<<>>)

\* lines 89-91: the error is printed, {} returned
FetchRoutesExcept(error) == Returned(NoFeaturesKey)

\* main_fastapi.py lines 47-72 (main.py 24-46): a vehicle dict for every
\* entity of the feed that has the field 'vehicle'
fetch_vehicle_positions(feed) ==
    IF feed.kind = "raises" THEN FetchVehiclesExcept(feed.error)
    ELSE LET with == SelectSeq(feed.entity, LAMBDA e : e.has_vehicle)
         IN  Returned([i \in 1..Len(with) |-> with[i].vehicle])

\* main_fastapi.py lines 75-91 (main.py 48-62)
fetch_static_routes(reply) ==
    IF reply.kind = "raises" THEN FetchRoutesExcept(reply.error)
    ELSE Returned(reply.body)

\* main_fastapi.py lines 94-158: the children of the map, or the exception
\* leaving the function, when the services answer with feed and reply
app_create_combined_map(source_coords, dest_coords, feed, reply) ==
    LET vs == fetch_vehicle_positions(feed)
        static_routes == fetch_static_routes(reply)
    IN  IF vs.raised THEN vs
        ELSE IF static_routes.raised THEN static_routes
        ELSE LET r == StaticRouteLoop(RouteFeatures(static_routes.value[1]),
                                      1, <<>>)
             IN  IF r.raised THEN Raised(<<r.exc[1].key>>)
                 ELSE Returned(<<Marker(source_coords, <<"Source">>),
                                 Marker(dest_coords, <<"Destination">>),
                                 FeatureGroup(<<"Live Vehicles">>,
                                              VehicleMarkers(vs.value[1]))>>
                               \o GroupLayers(r.value[1], 1)
                               \o <<LayerControl>>)

NotFoundError(address) ==
    <<"'">> \o address
    \o <<"' ", "not found",
         " in Durham Region. Please select from the suggested addresses.">>

\* f"Error generating map: {str(e)}"
MapError(error) == <<"Error generating map", ": ">> \o error

\* the address page with an error: rendered by main_fastapi.py, reached by
\* flash and redirect in main.py
AddressPage(variant, error) ==
    [page  |-> "second_page",
     how   |-> IF variant = "fastapi" THEN "rendered" ELSE "redirected",
     error |-> Some(error),
     map   |-> None,
     file  |-> None]

\* the map page: main_fastapi.py embeds map_html, main.py's template loads
\* static/temp_map.html
MapPage(variant, map_html) ==
    [page  |-> "map",
     how   |-> "rendered",
     error |-> None,
     map   |-> IF variant = "fastapi" THEN Some(map_html) ELSE None,
     file  |-> IF variant = "flask" THEN Some(<<"static/temp_map.html">>)
               ELSE None]

\* an exception that no handler of the application caught
Uncaught(variant, error) ==
    [page  |-> "internal_server_error",
     how   |-> "raised",
     error |-> Some(error),
     map   |-> None,
     file  |-> None]

\* main_fastapi.py lines 319-327 (main.py 274-277), "except Exception"
GetMapExcept(variant, error) == AddressPage(variant, MapError(error))

FoundAlways(coords) == TRUE

\* "if not source_coords" / "if not dest_coords", negated
Found(coords) == coords # None

\* the form fields a client posts; <<>> is a field left empty
Addresses == {<<>>, <<"Oshawa Centre">>, <<"Ajax GO">>}

Latitudes == {DurhamSouth - 1, DurhamSouth, DurhamNorth, DurhamNorth + 1}
Longitudes == {DurhamWest - 1, DurhamWest, DurhamEast, DurhamEast + 1}

Answers ==
    {NoLocation, GeocoderError, GeocoderTimedOut}
    \cup {Location(lat, lon) : lat \in Latitudes, lon \in Longitudes}

\* what the two services may answer
VehicleFeeds ==
    {RequestRaises,
     ParseRaises,
     Feed(<<>>),
     Feed(<<Entity(FALSE, Vehicle(1, <<"902">>)),
            Entity(TRUE, Vehicle(2, <<"901">>))>>)}
RoutesReplies ==
    {RequestRaises,
     StatusRaises,
     JsonRaises,
     Json(DefaultRoutes),
     Json(RoutesData(<<RouteFeature(Properties({"ROUTE_ID"}, <<"902">>, <<>>),
                                    << <<cIn>> >>)>>))}

\* os.makedirs and map_obj.save: done, or an OSError
Disks == {"done", "fails"}

Requests == {"request"}

Handler(variant, source, destination) ==
    [variant        |-> variant,
     source         |-> source,
     destination    |-> destination,
     pc             |-> "received",
     source_coords  |-> None,
     dest_coords    |-> None,
     source_lookups |-> <<>>,
     dest_lookups   |-> <<>>,
     feed           |-> None,
     reply          |-> None,
     map_obj        |-> None,
     trace          |-> <<>>,
     response       |-> None]

InitApp ==
    /\ Given(<<0, 0>>, <<0, 0>>, <<>>, RoutesData(<<>>), StopsData(<<>>))
    /\ call = "none"
    /\ pc = "idle"
    /\ max_distance_km = DefaultMaxDistanceKm
    /\ bbox = None
    /\ relevant_routes = <<>>
    /\ start_stop = None
    /\ end_stop = None
    /\ vehicle_group = <<>>
    /\ route_groups = <<>>
    /\ m = <<>>
    /\ ret = None
    /\ exc = None
    /\ first = None
    /\ frames = <<>>
    /\ temp_map = None
    /\ suggesting = None
    /\ handlers \in [Requests -> {Handler(v, s, d) :
                                    v \in {"fastapi", "flask"},
                                    s \in Addresses, d \in Addresses}]

Engine == <<inputs, call, pc, locals, ret, exc, first, frames, suggesting>>

\* the handler of request r answers
Respond(r, event, response) ==
    handlers' = [handlers EXCEPT ![r].pc = "responded",
                                 ![r].trace = Append(@, event),
                                 ![r].response = Some(response)]

\* get_map, main_fastapi.py lines 270-277: both fields are required
GetMapValidate(r) ==
    /\ handlers[r].pc = "received"
    /\ IF handlers[r].source = <<>> \/ handlers[r].destination = <<>>
       THEN Respond(r, "rejected",
                    AddressPage(handlers[r].variant,
                                <<"Both source and destination are required">>))
       ELSE handlers' = [handlers EXCEPT
                ![r].pc = IF handlers[r].variant = "flask"
                          THEN "validated" ELSE "ready"]
    /\ UNCHANGED <<Engine, temp_map>>

\* main.py lines 242-243: the static folder is made if it is missing
GetMapMakeDirs(r, disks) ==
    /\ handlers[r].pc = "validated"
    /\ \E disk \in disks :
          IF disk = "fails"
          THEN Respond(r, "error",
                       GetMapExcept(handlers[r].variant, <<"OSError">>))
          ELSE handlers' = [handlers EXCEPT ![r].pc = "ready"]
    /\ UNCHANGED <<Engine, temp_map>>

\* lines 282-290: the source address is geocoded
GetMapGeocodeSource(r, answers) ==
    /\ handlers[r].pc = "ready"
    /\ \E exact \in answers, regional \in answers :
          LET h == handlers[r]
              g == geocode_selected_address(h.source, exact, regional)
          IN  IF g.exc # None
              THEN handlers' = [handlers EXCEPT
                       ![r].pc = "responded",
                       ![r].source_lookups = g.lookups,
                       ![r].trace = @ \o <<"geocode_source", "error">>,
                       ![r].response =
                           Some(GetMapExcept(h.variant, g.exc[1]))]
              ELSE IF Found(g.value)
              THEN handlers' = [handlers EXCEPT
                       ![r].pc = "source_geocoded",
                       ![r].source_coords = g.value,
                       ![r].source_lookups = g.lookups,
                       ![r].trace = Append(@, "geocode_source")]
              ELSE handlers' = [handlers EXCEPT
                       ![r].pc = "responded",
                       ![r].source_lookups = g.lookups,
                       ![r].trace = @ \o <<"geocode_source", "not_found">>,
                       ![r].response =
                           Some(AddressPage(h.variant, NotFoundError(h.source)))]
    /\ UNCHANGED <<Engine, temp_map>>

\* lines 293-301: the destination address is geocoded
GetMapGeocodeDestination(r, answers) ==
    /\ handlers[r].pc = "source_geocoded"
    /\ \E exact \in answers, regional \in answers :
          LET h == handlers[r]
              g == geocode_selected_address(h.destination, exact, regional)
          IN  IF g.exc # None
              THEN handlers' = [handlers EXCEPT
                       ![r].pc = "responded",
                       ![r].dest_lookups = g.lookups,
                       ![r].trace = @ \o <<"geocode_destination", "error">>,
                       ![r].response =
                           Some(GetMapExcept(h.variant, g.exc[1]))]
              ELSE IF Found(g.value)
              THEN handlers' = [handlers EXCEPT
                       ![r].pc = "destination_geocoded",
                       ![r].dest_coords = g.value,
                       ![r].dest_lookups = g.lookups,
                       ![r].trace = Append(@, "geocode_destination")]
              ELSE handlers' = [handlers EXCEPT
                       ![r].pc = "responded",
                       ![r].dest_lookups = g.lookups,
                       ![r].trace = @ \o <<"geocode_destination", "not_found">>,
                       ![r].response =
                           Some(AddressPage(h.variant,
                                            NotFoundError(h.destination)))]
    /\ UNCHANGED <<Engine, temp_map>>

\* line 304: create_combined_map; its exception is answered at 319-327
GetMapCreateMap(r, feeds, replies) ==
    /\ handlers[r].pc = "destination_geocoded"
    /\ \E feed \in feeds, reply \in replies :
          LET h == handlers[r]
              built == app_create_combined_map(h.source_coords[1],
                                               h.dest_coords[1], feed, reply)
          IN  IF built.raised
              THEN handlers' = [handlers EXCEPT
                       ![r].pc = "responded",
                       ![r].feed = Some(feed),
                       ![r].reply = Some(reply),
                       ![r].trace = @ \o <<"create_map", "error">>,
                       ![r].response =
                           Some(GetMapExcept(h.variant, built.exc[1]))]
              ELSE handlers' = [handlers EXCEPT
                       ![r].pc = "map_created",
                       ![r].feed = Some(feed),
                       ![r].reply = Some(reply),
                       ![r].map_obj = built.value,
                       ![r].trace = Append(@, "create_map")]
    /\ UNCHANGED <<Engine, temp_map>>

\* main.py lines 263-264: the map is saved to static/temp_map.html;
\* main_fastapi.py line 305: it is rendered to map_html
GetMapSaveMap(r, disks) ==
    /\ handlers[r].pc = "map_created"
    /\ \E disk \in disks :
          IF handlers[r].variant = "flask" /\ disk = "fails"
          THEN /\ handlers' = [handlers EXCEPT
                      ![r].pc = "responded",
                      ![r].trace = @ \o <<"save_map", "error">>,
                      ![r].response =
                          Some(GetMapExcept(handlers[r].variant, <<"OSError">>))]
               /\ UNCHANGED temp_map
          ELSE /\ handlers' = [handlers EXCEPT
                      ![r].pc = "map_saved",
                      ![r].trace = Append(@, "save_map")]
               /\ temp_map' = IF handlers[r].variant = "flask"
                              THEN handlers[r].map_obj ELSE temp_map
    /\ UNCHANGED Engine

\* main_fastapi.py lines 307-318 (main.py 266-273): the map page
GetMapRenderMap(r) ==
    /\ handlers[r].pc = "map_saved"
    /\ Respond(r, "render",
               MapPage(handlers[r].variant, handlers[r].map_obj[1]))
    /\ UNCHANGED <<Engine, temp_map>>

NextApp ==
    \E r \in Requests :
        \/ GetMapValidate(r)
        \/ GetMapMakeDirs(r, Disks)
        \/ GetMapGeocodeSource(r, Answers)
        \/ GetMapGeocodeDestination(r, Answers)
        \/ GetMapCreateMap(r, VehicleFeeds, RoutesReplies)
        \/ GetMapSaveMap(r, Disks)
        \/ GetMapRenderMap(r)

SpecApp == InitApp /\ [][NextApp]_vars

-----------------------------------------------------------------------------
(* src/app/main.py: two requests to get_map served at the same time.  The
   handlers run in threads of one process and share the folder static/. *)

FlaskRequests == {"one", "two"}

\* the geocoder answers an address with its place
Gazetteer(address) ==
    CASE address = <<"Oshawa Centre">> -> Location(DurhamSouth, DurhamWest)
      [] address = <<"Ajax GO">> -> Location(DurhamNorth, DurhamEast)
      [] OTHER -> NoLocation

\* two requests with different source/destination pairs
InitFlask ==
    /\ Given(<<0, 0>>, <<0, 0>>, <<>>, RoutesData(<<>>), StopsData(<<>>))
    /\ call = "none"
    /\ pc = "idle"
    /\ max_distance_km = DefaultMaxDistanceKm
    /\ bbox = None
    /\ relevant_routes = <<>>
    /\ start_stop = None
    /\ end_stop = None
    /\ vehicle_group = <<>>
    /\ route_groups = <<>>
    /\ m = <<>>
    /\ ret = None
    /\ exc = None
    /\ first = None
    /\ frames = <<>>
    /\ temp_map = None
    /\ suggesting = None
    /\ handlers \in {h \in [FlaskRequests -> {Handler("flask", s, d) :
                                                 s \in Addresses,
                                                 d \in Addresses}] :
                         <<h["one"].source, h["one"].destination>>
                             # <<h["two"].source, h["two"].destination>>}

\* a step of one of the two handlers; the other may take the next one
NextFlask ==
    \E r \in FlaskRequests :
        \/ GetMapValidate(r)
        \/ GetMapMakeDirs(r, {"done"})
        \/ GetMapGeocodeSource(r, {Gazetteer(handlers[r].source)})
        \/ GetMapGeocodeDestination(r, {Gazetteer(handlers[r].destination)})
        \/ GetMapCreateMap(r, {Feed(<<>>)}, {Json(DefaultRoutes)})
        \/ GetMapSaveMap(r, {"done"})
        \/ GetMapRenderMap(r)

SpecFlask == InitFlask /\ [][NextFlask]_vars

-----------------------------------------------------------------------------
(* get_address_suggestions: src/utils/location.py lines 52-94,
   src/app/main_fastapi.py lines 161-193 and src/app/main.py lines 133-164
   hold the same code.  A query is a sequence of characters. *)

MaxQueryLen == 4
MaxLocations == 2

\* "if len(query.strip()) < 3"
MinQueryLength == 3

Whitespace == {" "}
Characters == Whitespace \cup {"a"}

RECURSIVE lstrip(_)
lstrip(s) ==
    IF s # <<>> /\ Head(s) \in Whitespace THEN lstrip(Tail(s)) ELSE s

RECURSIVE rstrip(_)
rstrip(s) ==
    IF s # <<>> /\ s[Len(s)] \in Whitespace
    THEN rstrip(SubSeq(s, 1, Len(s) - 1))
    ELSE s

Unstripped(s) == s

\* str.strip(): the whitespace at both ends removed
strip(s) == rstrip(lstrip(s))

\* geolocator.geocode(query, exactly_one=False, ...): None, a list of
\* locations, or an exception
Locations(locations) == [kind |-> "locations", locations |-> locations]

\* a location: its address and, in raw, the address details
Suggested(address, keys, state) ==
    [address |-> address,
     raw     |-> [keys    |-> keys \cap {"address"},
                  address |-> [keys  |-> keys \cap {"state"},
                               state |-> IF keys = {"address", "state"}
                                         THEN state ELSE <<>>]]]

\* loc.raw.get("address", {}).get("state")
StateOf(loc) ==
    IF HasKey(loc.raw, "address") /\ HasKey(loc.raw.address, "state")
    THEN Some(loc.raw.address.state)
    ELSE None

OntarioOrUnknown(loc) == StateOf(loc) \in {None, Some(<<"Ontario">>)}

\* ... == "Ontario"
Ontario(loc) == StateOf(loc) = Some(<<"Ontario">>)

\* [loc.address for loc in locations if ...]
RECURSIVE Suggestions(_, _)
Suggestions(locations, i) ==
    IF i > Len(locations) THEN <<>>
    ELSE (IF Ontario(locations[i]) THEN <<locations[i].address>> ELSE <<>>)
         \o Suggestions(locations, i + 1)

SuggestReraise(error) == Raised(error)

\* "except GeocoderTimedOut" (after a sleep) and "except Exception": []
SuggestExcept(error) == Returned(<<>>)

\* the list returned or the exception leaving the function, and the lookups
\* made, when the geocoder would answer the query with answer
get_address_suggestions(query, answer) ==
    IF Len(strip(query)) < MinQueryLength
    THEN [lookups |-> <<>>, slept |-> FALSE, result |-> Returned(<<>>)]
    ELSE [lookups |-> <<Lookup(query, answer)>>,
          slept   |-> answer = GeocoderTimedOut,
          result  |-> CASE answer.kind = "raises" ->
                               SuggestExcept(answer.error)
                        [] answer.kind = "none" -> Returned(<<>>)
                        [] answer.kind = "locations" ->
                               IF answer.locations = <<>>
                               THEN Returned(<<>>)
                               ELSE Returned(Suggestions(answer.locations, 1))]

RECURSIVE Strings(_, _)
Strings(alphabet, n) ==
    IF n = 0 THEN {<<>>}
    ELSE LET shorter == Strings(alphabet, n - 1)
         IN  shorter \cup {Append(s, c) : s \in shorter, c \in alphabet}

Queries == Strings(Characters, MaxQueryLen)

SuggestedLocations ==
    {Suggested(<<"1 King St, Oshawa">>, {"address", "state"}, <<"Ontario">>),
     Suggested(<<"2 Bond St, Ajax">>, {"address", "state"}, <<"Ontario">>),
     Suggested(<<"1 King St, Montreal">>, {"address", "state"}, <<"Quebec">>),
     Suggested(<<"1 King St">>, {"address"}, <<>>),
     Suggested(<<"King St">>, {}, <<>>)}

SuggestionAnswers ==
    {NoLocation, GeocoderError, GeocoderTimedOut}
    \cup {Locations(l) : l \in Strings(SuggestedLocations, MaxLocations)}

InitSuggest ==
    /\ Given(<<0, 0>>, <<0, 0>>, <<>>, RoutesData(<<>>), StopsData(<<>>))
    /\ call = "none"
    /\ pc = "idle"
    /\ max_distance_km = DefaultMaxDistanceKm
    /\ bbox = None
    /\ relevant_routes = <<>>
    /\ start_stop = None
    /\ end_stop = None
    /\ vehicle_group = <<>>
    /\ route_groups = <<>>
    /\ m = <<>>
    /\ ret = None
    /\ exc = None
    /\ first = None
    /\ frames = <<>>
    /\ temp_map = None
    /\ handlers = <<>>
    /\ suggesting = None

\* the route /address-suggestions (main_fastapi.py lines 257-261, main.py
\* 224-228): one call of get_address_suggestions with the query given.  A
\* call keeps nothing for the next one, so one call is followed.
AddressSuggestions(queries, answers) ==
    \E query \in queries, answer \in answers :
        /\ suggesting = None
        /\ suggesting' = Some([query   |-> query,
                               outcome |-> get_address_suggestions(query, answer)])
        /\ UNCHANGED <<inputs, call, pc, locals, ret, exc, first, frames,
                       handlers, temp_map>>

NextSuggest == AddressSuggestions(Queries, SuggestionAnswers)

SpecSuggest == InitSuggest /\ [][NextSuggest]_vars

-----------------------------------------------------------------------------
(* src/utils/location.py: haversine_distance called on its own *)

\* valid points: latitudes in [-90, 90], longitudes in [-180, 180]
Points ==
    {<<Deg(lat), Deg(lon)>> : lat \in {-60, 0, 60},
                              lon \in {-180, -120, -60, 0, 60, 120, 180}}

InitDistance ==
    /\ \E a \in Points, b \in Points :
           Given(a, b, <<>>, RoutesData(<<>>), StopsData(<<>>))
    /\ call = "none"
    /\ pc = "idle"
    /\ max_distance_km = DefaultMaxDistanceKm
    /\ bbox = None
    /\ relevant_routes = <<>>
    /\ start_stop = None
    /\ end_stop = None
    /\ vehicle_group = <<>>
    /\ route_groups = <<>>
    /\ m = <<>>
    /\ ret = None
    /\ exc = None
    /\ first = None
    /\ frames = <<>>
    /\ temp_map = None
    /\ handlers = <<>>
    /\ suggesting = None

\* haversine_distance(lat1, lon1, lat2, lon2) on the two points
HaversineDistance ==
    /\ call = "none"
    /\ call' = "haversine_distance"
    /\ pc' = "returned"
    /\ ret' = Some(haversine_distance(point_a[1], point_a[2],
                                      point_b[1], point_b[2]))
    /\ UNCHANGED <<inputs, locals, exc, beside>>

NextDistance == HaversineDistance

SpecDistance == InitDistance /\ [][NextDistance]_vars

-----------------------------------------------------------------------------
(* What the properties below speak about *)

Features == RouteFeatures(geojson_data)
Stops == StopFeatures(stops_data)

InJourney(positions) == call = "create_journey_map" /\ pc \in positions

AfterFilter == {"filtered", "stops_marked", "vehicles_added", "routes_added",
                "returned"}
AfterStops == {"stops_marked", "vehicles_added", "routes_added", "returned"}
AfterVehicles == {"vehicles_added", "routes_added", "returned"}
AfterRoutes == {"routes_added", "returned"}

FilterReturned == call = "filter_relevant_routes" /\ pc = "returned"

\* some coordinate of some part of the feature lies in the box, edges included
TouchesBox(f, box) ==
    \E g \in 1..Len(f.geometry.coordinates) :
        \E k \in 1..Len(f.geometry.coordinates[g]) :
            LET lon == f.geometry.coordinates[g][k][1]
                lat == f.geometry.coordinates[g][k][2]
            IN  /\ box.min_lat <= lat /\ lat <= box.max_lat
                /\ box.min_lon <= lon /\ lon <= box.max_lon

\* every coordinate of the feature that lies in the box lies on an edge of it
OnlyOnEdge(f, box) ==
    /\ TouchesBox(f, box)
    /\ \A g \in 1..Len(f.geometry.coordinates) :
          \A k \in 1..Len(f.geometry.coordinates[g]) :
              LET lon == f.geometry.coordinates[g][k][1]
                  lat == f.geometry.coordinates[g][k][2]
              IN  \/ lat \in {box.min_lat, box.max_lat}
                  \/ lon \in {box.min_lon, box.max_lon}
                  \/ lat < box.min_lat \/ lat > box.max_lat
                  \/ lon < box.min_lon \/ lon > box.max_lon

NoPoints(f) ==
    \A g \in 1..Len(f.geometry.coordinates) : f.geometry.coordinates[g] = <<>>

RelevantIff(ids) ==
    \A id \in RouteIds \cup ids :
        id \in ids <=>
            \E i \in 1..Len(Features) :
                /\ Features[i].properties.ROUTE_ID = id
                /\ TouchesBox(Features[i], bbox[1])

\* C1: filter_relevant_routes returns a route id exactly when some
\* coordinate of some geometry part of some feature with that id lies in the
\* padded box, the four edges included.
C1_RelevantIffPointInBox ==
    /\ FilterReturned => RelevantIff(Range(ret[1]))
    /\ InJourney(AfterFilter) => RelevantIff(Range(relevant_routes))

\* a returned id that is relevant through a point on an edge only, next to a
\* feature without points whose id is not returned
C1_Witness ==
    /\ FilterReturned
    /\ \E i, j \in 1..Len(Features) :
          /\ Features[i].properties.ROUTE_ID \in Range(ret[1])
          /\ OnlyOnEdge(Features[i], bbox[1])
          /\ NoPoints(Features[j])
          /\ Features[j].properties.ROUTE_ID \notin Range(ret[1])

\* distance from a point to the i-th stop
StopDistance(point, i) ==
    geodesic(point, <<Stops[i].geometry.coordinates[2],
                      Stops[i].geometry.coordinates[1]>>)

\* i is the first index of a stop at minimal distance
FirstNearest(point, i) ==
    /\ \A j \in 1..Len(Stops) : StopDistance(point, i) <= StopDistance(point, j)
    /\ \A j \in 1..(i - 1) : StopDistance(point, i) < StopDistance(point, j)

\* C2: on a non-empty list of stops both lookups return a stop at minimal
\* distance, and among several at that distance the first of the input.
C2_NearestIsFirstMinimum ==
    /\ (call = "find_nearest_bus_stop" /\ pc = "returned" /\ Stops # <<>>) =>
           /\ ret[1] # None
           /\ \E i \in 1..Len(Stops) :
                 /\ ret[1][1] = BusStops(stops_data)[i]
                 /\ FirstNearest(point_a, i)
    /\ (InJourney(AfterStops) /\ Stops # <<>>) =>
           /\ start_stop # None
           /\ end_stop # None
           /\ FirstNearest(point_a, start_stop[1].stop_id)
           /\ FirstNearest(point_b, end_stop[1].stop_id)

\* the stop returned is not the first of the list and a later stop is as near
C2_Witness ==
    /\ call = "find_nearest_bus_stop" /\ pc = "returned"
    /\ ret[1] # None
    /\ ret[1][1].id > 1
    /\ \E j \in 1..Len(Stops) :
          /\ j > ret[1][1].id
          /\ StopDistance(point_a, j) = StopDistance(point_a, ret[1][1].id)

RelevantVehicles ==
    SelectSeq(vehicles, LAMBDA v : v.route_id \in Range(relevant_routes))

\* C3: the vehicles drawn are the input vehicles whose route_id is a relevant
\* route id, in input order; no other vehicle is drawn.
C3_VehiclesAreRelevantSubsequence ==
    InJourney(AfterVehicles) =>
        /\ Len(vehicle_group) = Len(RelevantVehicles)
        /\ \A k \in 1..Len(vehicle_group) :
              vehicle_group[k] = CircleMarker(RelevantVehicles[k])

\* two vehicles drawn, one left out
C3_Witness ==
    /\ InJourney({"returned"})
    /\ Len(vehicle_group) >= 2
    /\ Len(vehicle_group) < Len(vehicles)

RelevantFeatures ==
    SelectSeq(Features,
              LAMBDA f : f.properties.ROUTE_ID \in Range(relevant_routes))

RECURSIVE Flatten(_, _)
Flatten(groups, k) ==
    IF k > Len(groups) THEN <<>>
    ELSE groups[k].children \o Flatten(groups, k + 1)

\* the route features drawn on the map
Drawn == Flatten(route_groups, 1)

\* the features whose route id no earlier feature of the sequence carries
RECURSIVE FirstOccurrences(_, _, _)
FirstOccurrences(fs, i, seen) ==
    IF i > Len(fs) THEN <<>>
    ELSE IF fs[i].properties.ROUTE_ID \in seen
         THEN FirstOccurrences(fs, i + 1, seen)
         ELSE <<fs[i]>> \o FirstOccurrences(fs, i + 1,
                                            seen \cup {fs[i].properties.ROUTE_ID})

\* C4 as stated: the relevant routes are the relevant features in input
\* order, one per route id, the first of each id.
C4_FirstOccurrenceOnly ==
    InJourney(AfterRoutes) => Drawn = FirstOccurrences(RelevantFeatures, 1, {})

\* C4, amended: every input feature whose route_id is relevant is drawn, in
\* the layer named after its id and name and in input order there; features
\* that share a route_id are all kept.
C4_EveryRelevantFeatureKept ==
    InJourney(AfterRoutes) =>
        /\ Len(Drawn) = Len(RelevantFeatures)
        /\ \A f \in Range(RelevantFeatures) :
              GroupName(f.properties.ROUTE_ID, f.properties.ROUTE_NAME)
                  \in GroupNames(route_groups)
        /\ \A k \in 1..Len(route_groups) :
              /\ \A j \in 1..Len(route_groups) :
                    route_groups[j].name = route_groups[k].name => j = k
              /\ route_groups[k].children =
                    SelectSeq(RelevantFeatures,
                        LAMBDA f : GroupName(f.properties.ROUTE_ID,
                                             f.properties.ROUTE_NAME)
                                   = route_groups[k].name)

\* two relevant features with the same route id, both drawn
C4_Witness ==
    /\ InJourney({"returned"})
    /\ Len(Drawn) = 2
    /\ Drawn[1].properties.ROUTE_ID = Drawn[2].properties.ROUTE_ID

Malformed(f) ==
    ~(HasKey(f.properties, "ROUTE_ID") /\ HasKey(f.properties, "ROUTE_NAME"))

\* C5: a call of the route filter or of the journey map on features of which
\* one lacks ROUTE_ID or ROUTE_NAME never returns: it ends in a failure.
C5_MalformedFeatureAlwaysFails ==
    (call \in {"filter_relevant_routes", "create_journey_map"} /\ pc = "returned")
        => \A i \in 1..Len(Features) : ~Malformed(Features[i])

\* C6: when create_journey_map fails, the caller receives the exception and
\* no map, whatever had been built.
C6_FailureReturnsNoMap ==
    (call = "create_journey_map" /\ pc = "raised") => (ret = None /\ exc # None)

\* the failure comes after markers were put on the map
C6_Witness ==
    /\ call = "create_journey_map" /\ pc = "raised"
    /\ m # <<>>
    /\ \E i \in 1..Len(Features) : Malformed(Features[i])

WellOrdered(box) ==
    /\ box.min_lat <= box.max_lat
    /\ box.min_lon <= box.max_lon

Holds(box, point) ==
    /\ box.min_lat <= point[1] /\ point[1] <= box.max_lat
    /\ box.min_lon <= point[2] /\ point[2] <= box.max_lon

\* C7 as stated: whatever max_distance_km is, the box has min <= max on both
\* axes and holds both endpoints.
C7_RegionForEveryPadding ==
    bbox # None =>
        /\ WellOrdered(bbox[1])
        /\ Holds(bbox[1], point_a)
        /\ Holds(bbox[1], point_b)

\* C7, amended: for max_distance_km >= 0 the box has min <= max on both axes
\* and holds both endpoints.
C7_RegionForNonNegativePadding ==
    (bbox # None /\ max_distance_km >= 0) =>
        /\ WellOrdered(bbox[1])
        /\ Holds(bbox[1], point_a)
        /\ Holds(bbox[1], point_b)

\* a box padded by 2 km around two different endpoints
C7_Witness ==
    /\ FilterReturned
    /\ max_distance_km = 2
    /\ point_a # point_b

Lower(x, y) == CHOOSE z \in {x, y} : z <= x /\ z <= y
Upper(x, y) == CHOOSE z \in {x, y} : z >= x /\ z >= y

\* C8: each of the four edges lies max_distance_km / 111 degrees outside the
\* rectangle spanned by the endpoints, the same amount for latitude and
\* longitude.
C8_UniformPadding ==
    bbox # None =>
        /\ KmPerDegree * (Lower(point_a[1], point_b[1]) - bbox[1].min_lat)
               = Deg(max_distance_km)
        /\ KmPerDegree * (bbox[1].max_lat - Upper(point_a[1], point_b[1]))
               = Deg(max_distance_km)
        /\ KmPerDegree * (Lower(point_a[2], point_b[2]) - bbox[1].min_lon)
               = Deg(max_distance_km)
        /\ KmPerDegree * (bbox[1].max_lon - Upper(point_a[2], point_b[2]))
               = Deg(max_distance_km)

\* a padded box around endpoints at latitude 0 and at latitude 60, the
\* northern one given first
C8_Witness ==
    /\ bbox # None
    /\ max_distance_km > 0
    /\ point_a[1] > point_b[1]

WellFormedRoutes == \A i \in 1..Len(Features) : ~Malformed(Features[i])

\* C9: with no stops, find_nearest_bus_stop returns None, and
\* find_closest_stop returns None for both endpoints and raises nothing.
C9_NoStopsGivesNone ==
    /\ (call = "find_nearest_bus_stop" /\ pc = "returned" /\ Stops = <<>>)
           => ret = Some(None)
    /\ (InJourney(AfterStops) /\ Stops = <<>>)
           => (start_stop = None /\ end_stop = None)
    /\ (call = "create_journey_map" /\ Stops = <<>> /\ WellFormedRoutes)
           => pc # "raised"

\* a journey map returned for stops data without the 'features' key
C9_Witness ==
    /\ InJourney({"returned"})
    /\ ~HasKey(stops_data, "features")
    /\ start_stop = None

\* the closest stop to a point among all the stops of stops_data
ClosestOfAll(point) ==
    IF Stops = <<>> THEN None
    ELSE LET i == CHOOSE k \in 1..Len(Stops) : FirstNearest(point, k)
         IN  Some([stop_id     |-> Stops[i].properties.STOP_ID,
                   stop_name   |-> Stops[i].properties.STOP_NAME,
                   coordinates |-> <<Stops[i].geometry.coordinates[2],
                                     Stops[i].geometry.coordinates[1]>>,
                   distance    |-> StopDistance(point, i)])

\* C10: the closest stops of the journey are the closest among all the stops
\* passed in, inside the box or not, whatever the routes and vehicles are.
C10_ClosestStopsOverAllStops ==
    InJourney(AfterStops) =>
        /\ start_stop = ClosestOfAll(point_a)
        /\ end_stop = ClosestOfAll(point_b)

\* the closest stop lies outside the box and no route is relevant
C10_Witness ==
    /\ InJourney({"returned"})
    /\ start_stop # None
    /\ ~Holds(bbox[1], start_stop[1].coordinates)
    /\ relevant_routes = <<>>

\* C11: the list filter_relevant_routes returns holds each route id at most
\* once, also when several features with that id have a point in the box.
C11_RelevantIdsWithoutDuplicates ==
    /\ FilterReturned =>
           \A i, j \in 1..Len(ret[1]) : ret[1][i] = ret[1][j] => i = j
    /\ InJourney(AfterFilter) =>
           \A i, j \in 1..Len(relevant_routes) :
               relevant_routes[i] = relevant_routes[j] => i = j

\* two features with the same id, each with a point in the box, and the id
\* returned
C11_Witness ==
    /\ FilterReturned
    /\ Len(Features) = 2
    /\ Features[1].properties.ROUTE_ID = Features[2].properties.ROUTE_ID
    /\ TouchesBox(Features[1], bbox[1])
    /\ TouchesBox(Features[2], bbox[1])
    /\ Len(ret[1]) = 1

Done == pc \in {"returned", "raised"}

HasFeatures == HasKey(geojson_data, "features")

LiveVehicles(children) == FeatureGroup(<<"Live Vehicles">>, children)

\* C12: empty vehicles, an empty features list and empty stops are valid
\* inputs of every builder: the call returns, and the layer of the empty
\* input is empty or absent; routes of which none has a point in the box give
\* an empty list of relevant ids, not a failure.
C12_EmptyInputsAreValid ==
    /\ (call = "plot_vehicles" /\ Done /\ vehicles = <<>>)
           => (pc = "returned" /\ ret = Some(<<>>))
    /\ (call = "create_static_routes_map" /\ Done /\ HasFeatures
            /\ Features = <<>>)
           => (pc = "returned" /\ ret = Some(<<LayerControl>>))
    /\ (call = "create_combined_map" /\ Done /\ HasFeatures
            /\ Features = <<>>)
           => (pc = "returned"
               /\ ret = Some(<<LiveVehicles(VehicleMarkers(vehicles)),
                               LayerControl>>))
    /\ (call = "create_combined_map" /\ Done /\ HasFeatures
            /\ WellFormedRoutes /\ vehicles = <<>>)
           => (pc = "returned" /\ ret[1][1] = LiveVehicles(<<>>))
    /\ (InJourney({"returned", "raised"}) /\ WellFormedRoutes
            /\ vehicles = <<>>)
           => (pc = "returned" /\ LiveVehicles(<<>>) \in Range(ret[1]))
    /\ (InJourney({"returned", "raised"}) /\ Features = <<>>)
           => (pc = "returned" /\ relevant_routes = <<>>
               /\ \A k \in 1..Len(ret[1]) :
                      ret[1][k].kind = "FeatureGroup"
                          => ret[1][k].name = <<"Live Vehicles">>)
    /\ (InJourney({"returned", "raised"}) /\ WellFormedRoutes /\ Stops = <<>>)
           => (pc = "returned" /\ start_stop = None /\ end_stop = None
               /\ \A k \in 1..Len(ret[1]) :
                      ret[1][k].kind = "Marker"
                          => ret[1][k].popup \in {<<"Start Point">>,
                                                  <<"End Point">>})
    /\ (call = "filter_relevant_routes" /\ Done
            /\ \A i \in 1..Len(Features) :
                   /\ HasKey(Features[i].properties, "ROUTE_ID")
                   /\ ~TouchesBox(Features[i], bbox[1]))
           => (pc = "returned" /\ ret = Some(<<>>))

\* the journey map of no vehicles, no routes and no stops
C12_Witness ==
    /\ InJourney({"returned"})
    /\ vehicles = <<>>
    /\ HasFeatures
    /\ Features = <<>>
    /\ Stops = <<>>
    /\ ret = Some(EndpointMarkers(point_a, point_b)
                  \o <<LiveVehicles(<<>>), LayerControl>>)

\* C13: create_static_routes_map of a dict without the 'features' key
\* returns a map that carries a LayerControl.
C13_MissingFeaturesKeyGivesMap ==
    (call = "create_static_routes_map" /\ Done /\ ~HasFeatures)
        => (pc = "returned" /\ LayerControl \in Range(ret[1]))

AllFeatures == IF HasFeatures THEN geojson_data.features ELSE <<>>

\* C14: create_static_routes_map of features of which one, at whatever
\* position, lacks ROUTE_NAME or ROUTE_ID raises KeyError and returns no map.
C14_MissingPropertyRaisesKeyError ==
    (call = "create_static_routes_map" /\ Done
        /\ \E i \in 1..Len(AllFeatures) : Malformed(AllFeatures[i]))
        => (pc = "raised"
            /\ exc \in {Some(KeyError("ROUTE_NAME")), Some(KeyError("ROUTE_ID"))}
            /\ ret = None)

\* the feature that lacks a property comes after one that has both
C14_Witness ==
    /\ call = "create_static_routes_map"
    /\ pc = "raised"
    /\ Len(AllFeatures) = 2
    /\ ~Malformed(AllFeatures[1])
    /\ Malformed(AllFeatures[2])
    /\ ret = None

Built ==
    /\ call \in {"create_static_routes_map", "create_combined_map",
                 "create_journey_map"}
    /\ pc = "returned"

\* the route layers of a map
RouteLayers(children) ==
    SelectSeq(children, LAMBDA c : /\ c.kind = "FeatureGroup"
                                   /\ c.name # <<"Live Vehicles">>)

\* the features a builder groups: all of them, or the relevant ones
Processed ==
    IF call = "create_journey_map" THEN RelevantFeatures ELSE AllFeatures

\* "Route {id}: {name}"
KeyOf(f) ==
    <<"Route ">> \o f.properties.ROUTE_ID \o <<": ">> \o f.properties.ROUTE_NAME
PairOf(f) == <<f.properties.ROUTE_ID, f.properties.ROUTE_NAME>>

\* every processed feature lies in the layer named "Route {id}: {name}", and
\* in no other
KeyedByName(layers) ==
    /\ \A i \in 1..Len(Processed) :
          \E k \in 1..Len(layers) :
              /\ layers[k].name = KeyOf(Processed[i])
              /\ Processed[i] \in Range(layers[k].children)
    /\ \A k \in 1..Len(layers) :
          /\ layers[k].children # <<>>
          /\ \A c \in Range(layers[k].children) :
                 c \in Range(Processed) /\ KeyOf(c) = layers[k].name

\* C15 as stated: the layers are keyed "Route {id}: {name}", and there are as
\* many of them as distinct (id, name) pairs among the processed features.
C15_GroupPerDistinctPair ==
    Built =>
        /\ KeyedByName(RouteLayers(ret[1]))
        /\ Len(RouteLayers(ret[1]))
               = Cardinality({PairOf(Processed[i]) : i \in 1..Len(Processed)})

\* C15, amended: the layers are keyed "Route {id}: {name}", features of the
\* same id and name share a layer, and there are as many layers as distinct
\* formatted names among the processed features.
C15_GroupPerDistinctName ==
    Built =>
        /\ KeyedByName(RouteLayers(ret[1]))
        /\ \A i, j \in 1..Len(Processed) :
               PairOf(Processed[i]) = PairOf(Processed[j])
                   => \E k \in 1..Len(RouteLayers(ret[1])) :
                          {Processed[i], Processed[j]}
                              \subseteq Range(RouteLayers(ret[1])[k].children)
        /\ Len(RouteLayers(ret[1]))
               = Cardinality({KeyOf(Processed[i]) : i \in 1..Len(Processed)})

\* two features of different (id, name) pairs that format to one name, in
\* one layer
C15_Witness ==
    /\ Built
    /\ Len(Processed) = 2
    /\ PairOf(Processed[1]) # PairOf(Processed[2])
    /\ KeyOf(Processed[1]) = KeyOf(Processed[2])
    /\ Len(RouteLayers(ret[1])) = 1

\* C16: create_journey_map called a second time with the arguments of a
\* first call ends as the first call did: the same children in the same
\* order, or the same exception.
C16_SameArgumentsSameJourney ==
    (first # None /\ InJourney({"returned", "raised"})) => Outcome = first[1]

\* both calls returned, with two relevant routes (which list(set(...)) may
\* list in either order) and a vehicle shown
C16_Witness ==
    /\ first # None
    /\ InJourney({"returned"})
    /\ Len(relevant_routes) = 2
    /\ vehicle_group # <<>>
    /\ Outcome = first[1]

\* C18: no step of filter_relevant_routes, find_nearest_bus_stop,
\* find_closest_stop or create_journey_map, whether the call returns or
\* raises, changes point_a, point_b, vehicles, geojson_data or stops_data.
C18_ArgumentsNeverMutated == [][inputs' = inputs]_vars

\* a journey that raised after it had run over all three collections
C18_Witness ==
    /\ InJourney({"raised"})
    /\ exc = Some(KeyError("ROUTE_NAME"))
    /\ vehicles # <<>>
    /\ Features # <<>>
    /\ Stops # <<>>

FrameOutcome(f) == [raised |-> f.pc = "raised", value |-> f.ret, exc |-> f.exc]

\* C17: of two invocations of create_journey_map that run at once, each on
\* its own snapshot and with no lock, either ends as a call with its
\* arguments ends when it runs alone.
C17_ConcurrentAsAlone ==
    \A p \in Invocations :
        frames[p].pc \in {"returned", "raised"}
            => FrameOutcome(frames[p])
                   \in create_journey_map(frames[p].args.a, frames[p].args.b,
                                          frames[p].args.vehicles,
                                          frames[p].args.routes,
                                          frames[p].args.stops)

\* one invocation returned its route layer while the other, on another
\* snapshot, was between its stops and its return
C17_Witness ==
    /\ frames["one"].pc = "routes_added"
    /\ frames["one"].route_groups # <<>>
    /\ frames["two"].pc = "returned"
    /\ frames["two"].route_groups # <<>>
    /\ frames["one"].args # frames["two"].args

\* the answer geocode_selected_address settled on
Settled(lookups) == lookups[Len(lookups)].answer

\* a location with 43.7429 <= lat <= 44.3341 and -79.2647 <= lon <= -78.5226
InsideDurham(answer) ==
    /\ answer.kind = "location"
    /\ 437429 <= answer.latitude /\ answer.latitude <= 443341
    /\ -792647 <= answer.longitude /\ answer.longitude <= -785226

\* what a call that made these lookups returned
GeocodedWithinBounds(lookups, coords) ==
    lookups # <<>> =>
        coords = IF InsideDurham(Settled(lookups))
                 THEN Some(<<Settled(lookups).latitude,
                             Settled(lookups).longitude>>)
                 ELSE None

\* C19: geocode_selected_address returns (lat, lon) exactly when the
\* geocoder gave a location inside the Durham bounds, edges included, and
\* None in every other case; the coordinates create_combined_map is called
\* with lie inside the bounds.
C19_GeocodeOnlyInsideDurham ==
    \A r \in DOMAIN handlers :
        /\ GeocodedWithinBounds(handlers[r].source_lookups,
                                handlers[r].source_coords)
        /\ GeocodedWithinBounds(handlers[r].dest_lookups,
                                handlers[r].dest_coords)
        /\ handlers[r].map_obj # None
               => \A k \in 1..2 :
                      InsideDurham(
                          Location(handlers[r].map_obj[1][k].location[1],
                                   handlers[r].map_obj[1][k].location[2]))

\* a source on a corner of the bounds, found by the lookup with region, is
\* returned; a destination one unit north of the bounds is not
C19_Witness ==
    \E r \in DOMAIN handlers :
        /\ Len(handlers[r].source_lookups) = 2
        /\ handlers[r].source_coords = Some(<<437429, -792647>>)
        /\ handlers[r].dest_lookups # <<>>
        /\ Settled(handlers[r].dest_lookups) = Location(443342, -785226)
        /\ handlers[r].dest_coords = None

\* the place of an event in the trace of a handler, 0 when it is absent
Place(trace, event) ==
    IF \E k \in 1..Len(trace) : trace[k] = event
    THEN CHOOSE k \in 1..Len(trace) : trace[k] = event
    ELSE 0

\* C20: get_map geocodes the source, then the destination, and builds the
\* map only after both gave coordinates; when the source geocode gives
\* nothing the answer is the address page with a 'not found' error, and
\* neither the destination geocoding nor the map creation takes place.
C20_SourceThenDestinationThenMap ==
    \A r \in DOMAIN handlers :
        LET h == handlers[r]
            src == Place(h.trace, "geocode_source")
            dst == Place(h.trace, "geocode_destination")
            map == Place(h.trace, "create_map")
        IN  /\ dst # 0 => (src # 0 /\ src < dst /\ h.source_coords # None)
            /\ map # 0 => (dst # 0 /\ dst < map /\ h.source_coords # None
                           /\ h.dest_coords # None)
            /\ (h.response # None /\ h.response[1].page = "map") => map # 0
            /\ (src # 0 /\ h.source_coords = None)
                   => /\ h.response # None
                      /\ h.response[1].page = "second_page"
                      /\ h.response[1].error # None
                      /\ "not found" \in Range(h.response[1].error[1])
                      /\ h.response[1].map = None
                      /\ dst = 0
                      /\ map = 0
                      /\ h.dest_lookups = <<>>

\* the source was looked up twice and not found, and get_map answered
C20_Witness ==
    \E r \in DOMAIN handlers :
        /\ handlers[r].variant = "flask"
        /\ Len(handlers[r].source_lookups) = 2
        /\ handlers[r].source_coords = None
        /\ handlers[r].pc = "responded"
        /\ handlers[r].dest_lookups = <<>>

\* the event that precedes "error" in the trace of a handler, None when
\* "error" is absent or first
BeforeError(trace) ==
    IF Place(trace, "error") > 1
    THEN Some(trace[Place(trace, "error") - 1])
    ELSE None

\* a call of geocode_selected_address in which a lookup raised gave None,
\* and get_map went on as for an address that is not found
RaisedLookupGivesNone(h, lookups, coords, event) ==
    (lookups # <<>> /\ Settled(lookups).kind = "raises")
        => /\ coords = None
           /\ h.pc = "responded"
           /\ h.trace[Len(h.trace)] = "not_found"
           /\ h.trace[Len(h.trace) - 1] = event
           /\ "not found" \in Range(h.response[1].error[1])

\* C21: no exception leaves geocode_selected_address: when the first or the
\* fallback lookup raises, the call returns None.
C21_GeocodeNeverRaises ==
    \A r \in DOMAIN handlers :
        /\ RaisedLookupGivesNone(handlers[r], handlers[r].source_lookups,
                                 handlers[r].source_coords, "geocode_source")
        /\ RaisedLookupGivesNone(handlers[r], handlers[r].dest_lookups,
                                 handlers[r].dest_coords, "geocode_destination")
        /\ BeforeError(handlers[r].trace)
               \notin {Some("geocode_source"), Some("geocode_destination")}

\* the source was found; the first lookup of the destination gave no
\* location and the fallback timed out
C21_Witness ==
    \E r \in DOMAIN handlers :
        /\ handlers[r].source_coords # None
        /\ Len(handlers[r].dest_lookups) = 2
        /\ Settled(handlers[r].dest_lookups) = GeocoderTimedOut
        /\ handlers[r].dest_coords = None
        /\ handlers[r].pc = "responded"

\* the vehicle layer and the route layers of a map
VehicleLayer(children) ==
    SelectSeq(children, LAMBDA c : /\ c.kind = "FeatureGroup"
                                   /\ c.name = <<"Live Vehicles">>)

\* the routes answered hold a feature without ROUTE_NAME or ROUTE_ID
BrokenRoutes(reply) ==
    /\ reply.kind = "json"
    /\ \E i \in 1..Len(RouteFeatures(reply.body)) :
           Malformed(RouteFeatures(reply.body)[i])

\* C22: when the request, the status check or the parsing of a fetch
\* raises, fetch_vehicle_positions gives [] and fetch_static_routes gives
\* {}: the map is built, with no vehicle and no route layer respectively.
C22_FetchesDegradeToEmpty ==
    \A r \in DOMAIN handlers :
        LET h == handlers[r]
        IN  h.feed # None =>
                /\ (h.feed[1].kind = "raises" /\ ~BrokenRoutes(h.reply[1]))
                       => /\ h.map_obj # None
                          /\ VehicleLayer(h.map_obj[1])
                                 = <<FeatureGroup(<<"Live Vehicles">>, <<>>)>>
                /\ h.reply[1].kind = "raises"
                       => /\ h.map_obj # None
                          /\ RouteLayers(h.map_obj[1]) = <<>>
                          /\ BeforeError(h.trace) # Some("create_map")

\* both fetches failed and the map page was answered
C22_Witness ==
    \E r \in DOMAIN handlers :
        /\ handlers[r].feed = Some(ParseRaises)
        /\ handlers[r].reply = Some(StatusRaises)
        /\ handlers[r].pc = "responded"
        /\ handlers[r].response[1].page = "map"
        /\ Len(handlers[r].map_obj[1]) = 4

\* C28: no exception leaves get_map: an exception raised while geocoding
\* or building the map, the KeyError of a fetched route feature without
\* ROUTE_NAME or ROUTE_ID among them, is answered with the address page and
\* an 'Error generating map' message, and no map page is rendered.
C28_GetMapCatchesEverything ==
    \A r \in DOMAIN handlers :
        LET h == handlers[r]
        IN  /\ h.response # None => h.response[1].page \in {"second_page", "map"}
            /\ ("error" \in Range(h.trace)
                    \/ (h.reply # None /\ BrokenRoutes(h.reply[1])))
                   => /\ h.pc = "responded"
                      /\ h.response[1].page = "second_page"
                      /\ "Error generating map" \in Range(h.response[1].error[1])
                      /\ "render" \notin Range(h.trace)

\* the routes fetched held a feature without ROUTE_NAME
C28_Witness ==
    \E r \in DOMAIN handlers :
        /\ handlers[r].variant = "fastapi"
        /\ handlers[r].reply # None
        /\ BrokenRoutes(handlers[r].reply[1])
        /\ handlers[r].response
               = Some(AddressPage("fastapi", MapError(<<"ROUTE_NAME">>)))

\* what a call of geocode_selected_address(address) asked the geocoder
AtMostTwoLookups(address, lookups, coords) ==
    lookups # <<>> =>
        /\ Len(lookups) <= 2
        /\ lookups[1].query = address
        /\ Len(lookups) = 2 <=> lookups[1].answer.kind = "none"
        /\ Len(lookups) = 2
               => lookups[2].query
                      = address \o <<", Durham Region, Ontario, Canada">>
        /\ (lookups[1].answer.kind = "location"
                /\ ~InsideDurham(lookups[1].answer))
               => (Len(lookups) = 1 /\ coords = None)

\* C29: geocode_selected_address makes one lookup, and a second one with
\* the suffix ', Durham Region, Ontario, Canada' exactly when the first gave
\* no location; a first location outside the bounds gives None at once.
C29_FallbackOnlyWhenNothingFound ==
    \A r \in DOMAIN handlers :
        /\ AtMostTwoLookups(handlers[r].source, handlers[r].source_lookups,
                            handlers[r].source_coords)
        /\ AtMostTwoLookups(handlers[r].destination, handlers[r].dest_lookups,
                            handlers[r].dest_coords)

\* the first lookup of the source gave a location one unit east of the
\* bounds: one lookup, None
C29_Witness ==
    \E r \in DOMAIN handlers :
        /\ handlers[r].source_lookups
               = <<Lookup(handlers[r].source, Location(437429, -785225))>>
        /\ handlers[r].source_coords = None
        /\ handlers[r].pc = "responded"

-----------------------------------------------------------------------------
(* get_address_suggestions *)

\* the positions of a query that hold no whitespace
Inked(query) == {i \in 1..Len(query) : query[i] \notin Whitespace}

\* the length of what is left of a query without the whitespace at its ends
StrippedLength(query) ==
    IF Inked(query) = {} THEN 0
    ELSE LET from == CHOOSE i \in Inked(query) : \A j \in Inked(query) : i <= j
             to   == CHOOSE i \in Inked(query) : \A j \in Inked(query) : j <= i
         IN  to - from + 1

\* C23: a query that, stripped of the whitespace at its ends, has fewer than
\* three characters (the empty query included) gets the empty list, and the
\* geocoder is not contacted for it.
C23_ShortQueryGivesNothing ==
    suggesting # None =>
        LET s == suggesting[1]
        IN  StrippedLength(s.query) < 3 =>
                /\ s.outcome.result = Returned(<<>>)
                /\ s.outcome.lookups = <<>>

\* a query of three characters or more that strips to fewer than three
C23_Witness ==
    /\ suggesting # None
    /\ Len(suggesting[1].query) >= 3
    /\ StrippedLength(suggesting[1].query) \in {1, 2}
    /\ suggesting[1].outcome.lookups = <<>>
    /\ suggesting[1].outcome.result = Returned(<<>>)

\* the addresses of the locations whose address details give the state
\* Ontario, in the order of the locations
OntarioAddresses(locations) ==
    LET InOntario(loc) ==
            /\ "address" \in loc.raw.keys
            /\ "state" \in loc.raw.address.keys
            /\ loc.raw.address.state = <<"Ontario">>
        kept == SelectSeq(locations, InOntario)
    IN  [i \in 1..Len(kept) |-> kept[i].address]

\* C24: get_address_suggestions never raises.  When the geocoder times out
\* or raises anything else the result is the empty list; when it answers,
\* the result is the addresses of the locations it gave whose state is
\* 'Ontario', and only those, in the geocoder's order.
C24_SuggestionsNeverRaise ==
    suggesting # None =>
        LET s == suggesting[1].outcome
        IN  /\ ~s.result.raised
            /\ Len(s.lookups) <= 1
            /\ \A i \in 1..Len(s.lookups) :
                   LET answer == s.lookups[i].answer
                   IN  /\ answer.kind = "raises" =>
                              s.result.value = Some(<<>>)
                       /\ answer.kind = "none" =>
                              s.result.value = Some(<<>>)
                       /\ answer.kind = "locations" =>
                              s.result.value =
                                  Some(OntarioAddresses(answer.locations))

\* the geocoder was contacted and timed out
C24_Witness ==
    /\ suggesting # None
    /\ Len(suggesting[1].outcome.lookups) = 1
    /\ suggesting[1].outcome.lookups[1].answer = GeocoderTimedOut
    /\ suggesting[1].outcome.slept
    /\ suggesting[1].outcome.result = Returned(<<>>)

-----------------------------------------------------------------------------
(* haversine_distance *)

\* C25: for every point p, the haversine distance from p to itself is
\* exactly 0.0.
C25_DistanceToItselfIsZero ==
    (call = "haversine_distance" /\ point_a = point_b) => ret = Some(0)

\* the distance of a point off the equator and off the prime meridian to
\* itself
C25_Witness ==
    /\ call = "haversine_distance"
    /\ point_a = point_b
    /\ point_a[1] # 0 /\ point_a[2] # 0
    /\ ret = Some(0)

-----------------------------------------------------------------------------
(* filter_relevant_routes: the breaks of its loops *)

\* the ids an exhaustive scan gives: every coordinate of every part of every
\* feature is compared with the box
ExhaustiveScan ==
    {Features[i].properties.ROUTE_ID :
        i \in {j \in 1..Len(Features) : TouchesBox(Features[j], bbox[1])}}

\* C26: the breaks in filter_relevant_routes do not change the answer.  The
\* set of ids returned is the set an exhaustive scan of every coordinate of
\* every feature gives, also when features share a route id or a geometry
\* has several parts; and a feature that touches the box has its id
\* returned although an earlier feature with another id was found relevant.
C26_BreaksKeepTheAnswer ==
    FilterReturned =>
        /\ Range(ret[1]) = ExhaustiveScan
        /\ \A i, j \in 1..Len(Features) :
               (/\ i < j
                /\ Features[i].properties.ROUTE_ID \in Range(ret[1])
                /\ Features[j].properties.ROUTE_ID
                       # Features[i].properties.ROUTE_ID
                /\ TouchesBox(Features[j], bbox[1]))
               => Features[j].properties.ROUTE_ID \in Range(ret[1])

\* two ids returned: the second feature, with another id than the first,
\* touches the box in its second part only
C26_Witness ==
    /\ FilterReturned
    /\ \E i, j \in 1..Len(Features) :
          /\ i < j
          /\ Features[j].properties.ROUTE_ID # Features[i].properties.ROUTE_ID
          /\ TouchesBox(Features[i], bbox[1])
          /\ Len(Features[j].geometry.coordinates) = 2
          /\ Features[j].geometry.coordinates[1] = <<>>
          /\ TouchesBox(Features[j], bbox[1])
          /\ {Features[i].properties.ROUTE_ID,
              Features[j].properties.ROUTE_ID} = Range(ret[1])

-----------------------------------------------------------------------------
(* get_map in main.py under two requests *)

\* C27: when two get_map requests of the Flask application with different
\* source/destination pairs interleave, the file static/temp_map.html that a
\* rendered map page refers to holds, when the page is rendered, the map
\* built from the coordinates of that page's own request.
C27_PageRefersToOwnMap ==
    [][\A r \in FlaskRequests :
           (/\ handlers[r].pc = "map_saved"
            /\ handlers'[r].pc = "responded"
            /\ handlers'[r].response[1].page = "map"
            /\ handlers'[r].response[1].file
                   = Some(<<"static/temp_map.html">>))
           => temp_map = handlers[r].map_obj]_vars

====
